---------------------------- MODULE Spec2Model ----------------------------
(***************************************************************************)
(* Bias-only trading desk: the seven readers and the bias synthesis of the *)
(* two orchestrators (dashboard.py and run_all_agents.py).                  *)
(*                                                                         *)
(* Numbers are exact rationals, kept as records [n |-> numerator,           *)
(* d |-> denominator] with d > 0. Where the rounding of the code's floats   *)
(* matters, a float is the rational it stands for and every operation       *)
(* rounds its exact result to a significand of Precision bits.              *)
(***************************************************************************)
EXTENDS Integers, Sequences, FiniteSets, TLC

VARIABLES
    reports,        \* the reader reports handed to the bias synthesis
    dash,           \* what dashboard.run_all_agents returned for the cycle
    cli,            \* what run_all_agents.run_all_agents returned for the cycle
    candles,        \* the candle sequence of the snapshot, oldest first
    regimeReport,   \* what RegimeClassifier.classify returned for candles
    adxOut,         \* what calculate_adx computed for candles
    prices,         \* a list of prices handed to the momentum helpers
    velocityOut,    \* what calculate_velocity returned for prices
    structureReport, \* what StructureMapper.map_structure returned for candles
    clusterCall,    \* a call of cluster_levels and of cluster_levels on its result
    sessionCall,    \* a SessionClock, the time handed to check_session, its report
    riskCall, \* a RiskCalculator, the stop handed to calculate, its report
    momentumCall, \* the closes handed to MomentumReader.read_momentum, its report
    volatilityCall, \* the spread handed to VolatilityAssessor.assess with candles, its report
    cycleRun, \* one orchestration cycle: its position, the data it fetched, what each reader received and returned
    baselineCall, \* the candle calculate_baseline_atr is called again without, both baselines
    recencyCall \* the ticks handed to calculate_velocity_trend and find_last_impulse, what they returned

biasVars == <<reports, dash, cli>>

regimeVars == <<regimeReport, adxOut>>

momentumVars == <<prices, velocityOut>>

\* The variables of a cycle and of the reader helpers called on its data.
cycleVars == <<reports, dash, cli, candles, regimeReport, adxOut, prices,
               velocityOut, structureReport>>

\* The calls of single functions and readers outside a cycle.
callVars == <<clusterCall, sessionCall, riskCall, momentumCall, volatilityCall, cycleRun, baselineCall, recencyCall>>

vars == <<reports, dash, cli, candles, regimeReport, adxOut, prices, velocityOut,
          structureReport, clusterCall, sessionCall,
          riskCall,
          momentumCall,
          volatilityCall,
          cycleRun,
          baselineCall,
          recencyCall>>

\* The values the variables hold before the operation that sets them has run.
NoReports == [regime |-> [status |-> "NONE"], momentum |-> [status |-> "NONE"],
              volatility |-> [status |-> "NONE"], session |-> [status |-> "NONE"]]

NoDash == [done |-> FALSE, bias |-> "", synthesis_forbidden |-> FALSE,
           forbidden_reasons |-> <<>>]

NoCli == [done |-> FALSE, raised |-> FALSE, bias |-> "",
          forbidden |-> FALSE, reason |-> "None"]

NoRegimeReport == [done |-> FALSE]

NoAdx == [done |-> FALSE]

NoVelocity == [done |-> FALSE]

NoStructureReport == [done |-> FALSE]

NoCall == [done |-> FALSE]

\* No function or reader has been called outside a cycle.
NoCalls ==
    /\ recencyCall = NoCall
    /\ baselineCall = NoCall
    /\ cycleRun = NoCall
    /\ volatilityCall = NoCall
    /\ momentumCall = NoCall
    /\ riskCall = NoCall
    /\ clusterCall = NoCall
    /\ sessionCall = NoCall

-----------------------------------------------------------------------------
(* Reader reports, as far as the synthesis reads them.                      *)

\* regime_classifier.py: classify returns status ERROR with regime UNKNOWN,
\* or status OK with one of the four regimes.
RegimeReports ==
    {[status |-> "ERROR", output |-> [regime |-> "UNKNOWN"]]}
    \cup {[status |-> "OK", output |-> [regime |-> r]] :
            r \in {"RANGE", "TREND_UP", "TREND_DOWN", "CHAOS"}}
    \cup {[status |-> "ERROR"]}

\* momentum_reader.py: _create_report; state is NEUTRAL on INSUFFICIENT_DATA.
MomentumReports ==
    {[status |-> "INSUFFICIENT_DATA", output |-> [state |-> "NEUTRAL"]]}
    \cup {[status |-> "ANALYSIS_COMPLETE", output |-> [state |-> s]] :
            s \in {"NEUTRAL", "ACCELERATING_LONG", "ACCELERATING_SHORT", "DECELERATING"}}
    \cup {[status |-> "ERROR"]}

VolatilityTiers == {"LOW", "NORMAL", "ELEVATED", "EXTREME"}

SpreadTiers == {"ACCEPTABLE", "WIDE", "EXTREME"}

\* volatility_assessor.py: assess files the tier under 'volatility_state'.
\* The second shape files it under 'state', the key run_all_agents.py reads.
VolatilityReports ==
    {[status |-> "ERROR",
      output |-> [volatility_state |-> "UNKNOWN", spread_status |-> "UNKNOWN"]]}
    \cup {[status |-> "OK", output |-> [volatility_state |-> v, spread_status |-> s]] :
            v \in VolatilityTiers, s \in SpreadTiers}
    \cup {[status |-> "OK", output |-> [state |-> v, spread_status |-> s]] :
            v \in VolatilityTiers, s \in SpreadTiers}
    \cup {[status |-> "ERROR"]}

\* session_clock.py: _determine_active_session and _determine_boundary_flag.
SessionOutputs ==
    {[active_session |-> "OVERLAP_LONDON_NY", boundary_flag |-> "OVERLAP_ACTIVE"],
     [active_session |-> "OFF_HOURS", boundary_flag |-> "NONE"]}
    \cup {[active_session |-> a, boundary_flag |-> b] :
            a \in {"ASIA", "LONDON", "NEW_YORK"},
            b \in {"SESSION_OPEN_30MIN", "SESSION_CLOSE_30MIN", "NONE"}}

SessionReports ==
    {[status |-> "TIME_CHECK_COMPLETE", output |-> o] : o \in SessionOutputs}
    \cup {[status |-> "ERROR"]}

-----------------------------------------------------------------------------
(* dashboard.py                                                            *)

\* safe_get(dictionary, k1, k2, default=...)
safe_get(dictionary, k1, k2, default) ==
    IF k1 \in DOMAIN dictionary
    THEN IF k2 \in DOMAIN dictionary[k1] THEN dictionary[k1][k2] ELSE default
    ELSE default

dashboard_calculate_bias(regime, momentum, volatility, session) ==
    LET regime_state     == safe_get(regime, "output", "regime", "UNKNOWN")
        momentum_state   == safe_get(momentum, "output", "state", "UNKNOWN")
        volatility_state == safe_get(volatility, "output", "volatility_state", "UNKNOWN")
        session_state    == safe_get(session, "output", "active_session", "UNKNOWN")
    IN  IF regime_state = "CHAOS" THEN "DO_NOT_TRADE"
        ELSE IF volatility_state = "EXTREME" THEN "DO_NOT_TRADE"
        ELSE IF session_state = "OFF_HOURS" THEN "DO_NOT_TRADE"
        ELSE IF regime_state = "TREND_UP"
                /\ momentum_state \in {"ACCELERATING_LONG", "NEUTRAL"}
             THEN "BULLISH_BIAS"
        ELSE IF regime_state = "RANGE" /\ momentum_state = "ACCELERATING_LONG"
             THEN "BULLISH_BIAS"
        ELSE IF regime_state = "TREND_DOWN"
                /\ momentum_state \in {"ACCELERATING_SHORT", "NEUTRAL"}
             THEN "BEARISH_BIAS"
        ELSE IF regime_state = "RANGE" /\ momentum_state = "ACCELERATING_SHORT"
             THEN "BEARISH_BIAS"
        ELSE "NEUTRAL"

\* The reasons list, in the order the code appends to it.
dashboard_check_synthesis_forbidden(regime, momentum, volatility, session) ==
    LET regime_state     == safe_get(regime, "output", "regime", "UNKNOWN")
        volatility_state == safe_get(volatility, "output", "volatility_state", "UNKNOWN")
        spread_status    == safe_get(volatility, "output", "spread_status", "UNKNOWN")
        session_state    == safe_get(session, "output", "active_session", "UNKNOWN")
        boundary_flag    == safe_get(session, "output", "boundary_flag", "NONE")
        r1 == IF regime_state = "CHAOS" THEN <<"REGIME_CHAOS">> ELSE <<>>
        r2 == IF volatility_state = "EXTREME" THEN <<"VOLATILITY_EXTREME">> ELSE <<>>
        r3 == IF spread_status = "WIDE" THEN <<"SPREAD_WIDE">>
              ELSE IF spread_status = "EXTREME" THEN <<"SPREAD_EXTREME">>
              ELSE <<>>
        r4 == IF session_state = "OFF_HOURS" THEN <<"SESSION_OFF_HOURS">> ELSE <<>>
        r5 == IF boundary_flag = "SESSION_CLOSE_30MIN" THEN <<"SESSION_CLOSING">> ELSE <<>>
        reasons == r1 \o r2 \o r3 \o r4 \o r5
    IN  [forbidden |-> Len(reasons) > 0, reasons |-> reasons]

-----------------------------------------------------------------------------
(* run_all_agents.py                                                       *)

\* reports[agent]['output'][key] raises KeyError unless both keys are there.
HasKey(report, key) ==
    /\ "output" \in DOMAIN report
    /\ key \in DOMAIN report.output

cli_calculate_bias(regime, momentum, volatility, session) ==
    IF regime = "CHAOS" THEN "DO_NOT_TRADE"
    ELSE IF volatility = "EXTREME" THEN "DO_NOT_TRADE"
    ELSE IF session = "OFF_HOURS" THEN "DO_NOT_TRADE"
    ELSE IF regime = "TREND_UP" /\ momentum = "ACCELERATING_SHORT" THEN "DO_NOT_TRADE"
    ELSE IF regime = "TREND_DOWN" /\ momentum = "ACCELERATING_LONG" THEN "DO_NOT_TRADE"
    ELSE IF regime = "RANGE" /\ momentum \in {"ACCELERATING_LONG", "ACCELERATING_SHORT"}
         THEN "DO_NOT_TRADE"
    ELSE
    LET base0 ==
            IF regime = "TREND_UP"
            THEN IF momentum = "ACCELERATING_LONG" THEN "BULLISH_BIAS"
                 ELSE IF momentum = "NEUTRAL" THEN "BULLISH_BIAS_WEAK"
                 ELSE "NEUTRAL"
            ELSE IF regime = "TREND_DOWN"
            THEN IF momentum = "ACCELERATING_SHORT" THEN "BEARISH_BIAS"
                 ELSE IF momentum = "NEUTRAL" THEN "BEARISH_BIAS_WEAK"
                 ELSE "NEUTRAL"
            ELSE "NEUTRAL"
        base1 ==
            IF volatility = "ELEVATED" /\ base0 \in {"BULLISH_BIAS", "BEARISH_BIAS"}
            THEN "NEUTRAL" ELSE base0
    IN  IF session = "SESSION_CLOSE_30MIN" THEN "DO_NOT_TRADE"
        ELSE IF session = "ASIA" /\ base1 = "BULLISH_BIAS" THEN "BULLISH_BIAS_WEAK"
        ELSE IF session = "ASIA" /\ base1 = "BEARISH_BIAS" THEN "BEARISH_BIAS_WEAK"
        ELSE base1

\* (is_forbidden, reason): the first condition that fires, or (False, None).
\* raised = TRUE stands for the KeyError of a missing key; the momentum state
\* is read only when none of the five earlier conditions returned.
cli_check_synthesis_forbidden(rs) ==
    IF ~ ( /\ HasKey(rs.regime, "regime")
           /\ HasKey(rs.volatility, "state")
           /\ HasKey(rs.volatility, "spread_status")
           /\ HasKey(rs.session, "active_session")
           /\ HasKey(rs.session, "boundary_flag") )
    THEN [raised |-> TRUE, forbidden |-> FALSE, reason |-> "None"]
    ELSE
    LET regime     == rs.regime.output.regime
        volatility == rs.volatility.output.state
        spread     == rs.volatility.output.spread_status
        session    == rs.session.output.active_session
        boundary   == rs.session.output.boundary_flag
    IN  IF regime = "CHAOS"
        THEN [raised |-> FALSE, forbidden |-> TRUE, reason |-> "REGIME = CHAOS"]
        ELSE IF volatility = "EXTREME"
        THEN [raised |-> FALSE, forbidden |-> TRUE, reason |-> "VOLATILITY = EXTREME"]
        ELSE IF spread = "WIDE"
        THEN [raised |-> FALSE, forbidden |-> TRUE, reason |-> "SPREAD = WIDE"]
        ELSE IF spread = "EXTREME"
        THEN [raised |-> FALSE, forbidden |-> TRUE, reason |-> "SPREAD = EXTREME"]
        ELSE IF session = "OFF_HOURS"
        THEN [raised |-> FALSE, forbidden |-> TRUE, reason |-> "SESSION = OFF_HOURS"]
        ELSE IF boundary = "SESSION_CLOSE_30MIN"
        THEN [raised |-> FALSE, forbidden |-> TRUE, reason |-> "SESSION CLOSING IN 30 MIN"]
        ELSE IF ~ HasKey(rs.momentum, "state")
        THEN [raised |-> TRUE, forbidden |-> FALSE, reason |-> "None"]
        ELSE IF regime = "TREND_UP" /\ rs.momentum.output.state = "ACCELERATING_SHORT"
        THEN [raised |-> FALSE, forbidden |-> TRUE,
              reason |-> "CONTRADICTION: TREND_UP vs ACCELERATING_SHORT"]
        ELSE IF regime = "TREND_DOWN" /\ rs.momentum.output.state = "ACCELERATING_LONG"
        THEN [raised |-> FALSE, forbidden |-> TRUE,
              reason |-> "CONTRADICTION: TREND_DOWN vs ACCELERATING_LONG"]
        ELSE [raised |-> FALSE, forbidden |-> FALSE, reason |-> "None"]

-----------------------------------------------------------------------------
(* One orchestration cycle of each orchestrator over the same reports.      *)

InitBias ==
    /\ reports \in [regime : RegimeReports, momentum : MomentumReports,
                    volatility : VolatilityReports, session : SessionReports]
    /\ dash = NoDash
    /\ cli = NoCli
    /\ candles = <<>>
    /\ regimeReport = NoRegimeReport
    /\ adxOut = NoAdx
    /\ prices = <<>>
    /\ velocityOut = NoVelocity
    /\ structureReport = NoStructureReport
    /\ NoCalls

\* dashboard.py run_all_agents, lines 242-266.
DashboardRunAllAgents ==
    /\ ~ dash.done
    /\ LET bias == dashboard_calculate_bias(reports.regime, reports.momentum,
                                            reports.volatility, reports.session)
           f == dashboard_check_synthesis_forbidden(reports.regime, reports.momentum,
                                                    reports.volatility, reports.session)
       IN  dash' = [done |-> TRUE, bias |-> bias,
                    synthesis_forbidden |-> f.forbidden,
                    forbidden_reasons |-> f.reasons]
    /\ UNCHANGED <<reports, cli, candles, regimeVars, momentumVars, structureReport, callVars>>

\* run_all_agents.py run_all_agents, lines 410-427.
CliRunAllAgents ==
    /\ ~ cli.done
    /\ IF ~ ( /\ HasKey(reports.regime, "regime")
              /\ HasKey(reports.momentum, "state")
              /\ HasKey(reports.volatility, "state")
              /\ HasKey(reports.session, "active_session") )
       THEN cli' = [NoCli EXCEPT !.done = TRUE, !.raised = TRUE]
       ELSE LET bias == cli_calculate_bias(reports.regime.output.regime,
                                           reports.momentum.output.state,
                                           reports.volatility.output.state,
                                           reports.session.output.active_session)
                f == cli_check_synthesis_forbidden(reports)
            IN  cli' = [done |-> TRUE, raised |-> f.raised,
                        bias |-> IF f.raised THEN "" ELSE bias,
                        forbidden |-> f.forbidden, reason |-> f.reason]
    /\ UNCHANGED <<reports, dash, candles, regimeVars, momentumVars, structureReport, callVars>>

NextBias == DashboardRunAllAgents \/ CliRunAllAgents

SpecBias == InitBias /\ [][NextBias]_vars

-----------------------------------------------------------------------------
(* Properties of the bias synthesis.                                        *)

\* The six headline fields as dashboard.py reads them (safe_get defaults).
DashSeen ==
    [regime     |-> safe_get(reports.regime, "output", "regime", "UNKNOWN"),
     momentum   |-> safe_get(reports.momentum, "output", "state", "UNKNOWN"),
     volatility |-> safe_get(reports.volatility, "output", "volatility_state", "UNKNOWN"),
     spread     |-> safe_get(reports.volatility, "output", "spread_status", "UNKNOWN"),
     session    |-> safe_get(reports.session, "output", "active_session", "UNKNOWN"),
     boundary   |-> safe_get(reports.session, "output", "boundary_flag", "NONE")]

\* The six headline fields as run_all_agents.py reads them.
CliSeen ==
    [regime     |-> safe_get(reports.regime, "output", "regime", "UNKNOWN"),
     momentum   |-> safe_get(reports.momentum, "output", "state", "UNKNOWN"),
     volatility |-> safe_get(reports.volatility, "output", "state", "UNKNOWN"),
     spread     |-> safe_get(reports.volatility, "output", "spread_status", "UNKNOWN"),
     session    |-> safe_get(reports.session, "output", "active_session", "UNKNOWN"),
     boundary   |-> safe_get(reports.session, "output", "boundary_flag", "NONE")]

\* The veto conditions of the forbidden gate that fire on the fields s.
FiringConditions(s) ==
    {c \in {"CHAOS", "VOLATILITY", "SPREAD", "OFF_HOURS", "CLOSING", "CONTRADICTION"} :
        \/ c = "CHAOS" /\ s.regime = "CHAOS"
        \/ c = "VOLATILITY" /\ s.volatility = "EXTREME"
        \/ c = "SPREAD" /\ s.spread \in {"WIDE", "EXTREME"}
        \/ c = "OFF_HOURS" /\ s.session = "OFF_HOURS"
        \/ c = "CLOSING" /\ s.boundary = "SESSION_CLOSE_30MIN"
        \/ c = "CONTRADICTION"
           /\ \/ s.regime = "TREND_UP" /\ s.momentum = "ACCELERATING_SHORT"
              \/ s.regime = "TREND_DOWN" /\ s.momentum = "ACCELERATING_LONG"}

\* The bias the matrix gives when no veto fires.
MatrixBias(s) ==
    IF \/ s.regime = "TREND_UP" /\ s.momentum \in {"ACCELERATING_LONG", "NEUTRAL"}
       \/ s.regime = "RANGE" /\ s.momentum = "ACCELERATING_LONG"
    THEN "BULLISH_BIAS"
    ELSE IF \/ s.regime = "TREND_DOWN" /\ s.momentum \in {"ACCELERATING_SHORT", "NEUTRAL"}
            \/ s.regime = "RANGE" /\ s.momentum = "ACCELERATING_SHORT"
    THEN "BEARISH_BIAS"
    ELSE "NEUTRAL"

DashReasons == {dash.forbidden_reasons[i] : i \in 1..Len(dash.forbidden_reasons)}

CliReasons == IF cli.forbidden THEN {cli.reason} ELSE {}

CliReturned == cli.done /\ ~ cli.raised

\* C1: whenever an orchestrator reports forbidden = true, the bias it reports
\* in the same cycle is DO_NOT_TRADE.
C1_ForbiddenShortCircuitsBias ==
    /\ dash.done /\ dash.synthesis_forbidden => dash.bias = "DO_NOT_TRADE"
    /\ CliReturned /\ cli.forbidden => cli.bias = "DO_NOT_TRADE"

\* C2: the forbidden flag is true exactly when at least one of the six veto
\* conditions (CHAOS, EXTREME volatility, WIDE/EXTREME spread, OFF_HOURS,
\* SESSION_CLOSE_30MIN, regime/momentum contradiction) holds.
C2_ForbiddenIffVeto ==
    /\ dash.done => (dash.synthesis_forbidden <=> FiringConditions(DashSeen) # {})
    /\ CliReturned => (cli.forbidden <=> FiringConditions(CliSeen) # {})

\* C3: the forbidden reasons are complete: one reason for each veto condition
\* that fires and none for a condition that does not fire.
C3_ReasonsComplete ==
    /\ dash.done =>
          Cardinality(DashReasons) = Cardinality(FiringConditions(DashSeen))
    /\ CliReturned =>
          Cardinality(CliReasons) = Cardinality(FiringConditions(CliSeen))

\* C4: the bias either orchestrator's calculate_bias returns is one of
\* BULLISH_BIAS, BEARISH_BIAS, NEUTRAL, DO_NOT_TRADE.
C4_BiasInFourValues ==
    /\ dash.done =>
          dash.bias \in {"BULLISH_BIAS", "BEARISH_BIAS", "NEUTRAL", "DO_NOT_TRADE"}
    /\ CliReturned =>
          cli.bias \in {"BULLISH_BIAS", "BEARISH_BIAS", "NEUTRAL", "DO_NOT_TRADE"}

\* C5: when no veto condition fires, calculate_bias returns the bias of the
\* regime/momentum matrix: BULLISH_BIAS for TREND_UP with ACCELERATING_LONG or
\* NEUTRAL and for RANGE with ACCELERATING_LONG, BEARISH_BIAS for the mirror
\* cases, NEUTRAL otherwise.
C5_MatrixWhenNoVeto ==
    /\ dash.done /\ FiringConditions(DashSeen) = {} => dash.bias = MatrixBias(DashSeen)
    /\ CliReturned /\ FiringConditions(CliSeen) = {} => cli.bias = MatrixBias(CliSeen)

\* C6: the bias synthesis never raises, whatever the reader reports, and an
\* UNKNOWN regime or momentum never yields BULLISH_BIAS or BEARISH_BIAS.
C6_SynthesisNeverFails ==
    /\ cli.done => ~ cli.raised
    /\ dash.done /\ (DashSeen.regime = "UNKNOWN" \/ DashSeen.momentum = "UNKNOWN")
          => dash.bias \notin {"BULLISH_BIAS", "BEARISH_BIAS"}
    /\ CliReturned /\ (CliSeen.regime = "UNKNOWN" \/ CliSeen.momentum = "UNKNOWN")
          => cli.bias \notin {"BULLISH_BIAS", "BEARISH_BIAS"}

-----------------------------------------------------------------------------
(* Exact rational arithmetic.                                               *)

Abs(x) == IF x < 0 THEN -x ELSE x

Max2(a, b) == IF a >= b THEN a ELSE b

Min2(a, b) == IF a <= b THEN a ELSE b

RECURSIVE GCD(_, _)
GCD(a, b) == IF b = 0 THEN a ELSE GCD(b, a % b)

\* The rational n/d in lowest terms, d # 0.
Rat(n, d) ==
    LET g == GCD(Abs(n), Abs(d))
        sgn == IF d < 0 THEN -1 ELSE 1
    IN  [n |-> sgn * (n \div g), d |-> sgn * (d \div g)]

RInt(k) == [n |-> k, d |-> 1]

RAdd(a, b) == Rat(a.n * b.d + b.n * a.d, a.d * b.d)

RSub(a, b) == Rat(a.n * b.d - b.n * a.d, a.d * b.d)

RMul(a, b) == Rat(a.n * b.n, a.d * b.d)

\* a / b for b # 0
RDiv(a, b) == Rat(a.n * b.d, a.d * b.n)

RAbs(a) == [n |-> Abs(a.n), d |-> a.d]

RLt(a, b) == a.n * b.d < b.n * a.d

RLe(a, b) == a.n * b.d <= b.n * a.d

RECURSIVE Pow10(_)
Pow10(k) == IF k = 0 THEN 1 ELSE 10 * Pow10(k - 1)

\* Python's round(x, ndigits): the nearest multiple of 10^-ndigits. At a
\* decimal tie (x exactly halfway) the double the code holds is either the tie
\* itself, rounded half to even, or a neighbour on one side of it: the tie goes
\* up or down as tie_up says and the operation that rounds draws tie_up.
round(x, ndigits, tie_up) ==
    LET scaled == x.n * Pow10(ndigits)
        q == scaled \div x.d
        r == scaled % x.d
        up == \/ 2 * r > x.d
              \/ 2 * r = x.d /\ tie_up
    IN  Rat(IF up THEN q + 1 ELSE q, Pow10(ndigits))

\* Python's int(x): truncation toward zero.
int(x) == IF x.n >= 0 THEN x.n \div x.d ELSE -((-x.n) \div x.d)

RECURSIVE SumTo(_, _)
\* sum(list[:n]) of a list of integers
SumTo(list, n) == IF n = 0 THEN 0 ELSE SumTo(list, n - 1) + list[n]

-----------------------------------------------------------------------------
(* Floating point. A Python float is a binary floating-point number, and    *)
(* each +, -, * and / on floats returns the exact result rounded to the     *)
(* nearest number of the format, ties to the even significand. The format   *)
(* of the code has a 53-bit significand; the model rounds in the same way   *)
(* to a significand of Precision bits and leaves the exponent unbounded.    *)
(* The prices of the candle grids, their sums and differences, the periods  *)
(* and the constant 100 are numbers of the format, as they are in the code. *)

\* The bits of a significand.
Precision == 8

RECURSIVE Pow2(_)
Pow2(k) == IF k = 0 THEN 1 ELSE 2 * Pow2(k - 1)

\* The significands of the format are the integers of
\* [SignificandMin, SignificandLimit).
SignificandLimit == Pow2(Precision)

SignificandMin == Pow2(Precision - 1)

RECURSIVE fl_scale(_, _, _)
\* n/d > 0 times the power of two that brings it into
\* [2^(Precision-1), 2^Precision), with e the exponent taken out.
fl_scale(n, d, e) ==
    IF n >= SignificandLimit * d THEN fl_scale(n, 2 * d, e + 1)
    ELSE IF n < SignificandMin * d THEN fl_scale(2 * n, d, e - 1)
    ELSE [n |-> n, d |-> d, e |-> e]

\* The significand of the scaled s.n/s.d, rounded to nearest, ties to even,
\* times 2^(s.e).
fl_round(s) ==
    LET q == s.n \div s.d
        r == s.n % s.d
        up == \/ 2 * r > s.d
              \/ 2 * r = s.d /\ q % 2 = 1
        m == IF up THEN q + 1 ELSE q
    IN  IF s.e >= 0 THEN Rat(m * Pow2(s.e), 1) ELSE Rat(m, Pow2(-s.e))

\* The float nearest to the rational x.
fl(x) ==
    IF x.n = 0 THEN x
    ELSE IF x.n < 0 THEN RSub(RInt(0), fl_round(fl_scale(-x.n, x.d, 0)))
    ELSE fl_round(fl_scale(x.n, x.d, 0))

\* a + b, a - b, a * b and a / b on floats.
FAdd(a, b) == fl(RAdd(a, b))

FSub(a, b) == fl(RSub(a, b))

FMul(a, b) == fl(RMul(a, b))

FDiv(a, b) == fl(RDiv(a, b))

-----------------------------------------------------------------------------
(* agents/regime_classifier.py                                              *)

\* self.lookback
lookback == 14

\* candles[i]['high'] and so on; the readers modelled here read no other field.
Candle(o, h, l, c) == [open |-> o, high |-> h, low |-> l, close |-> c]

\* tr of step i (1-based: candles[i+1] against candles[i])
TrueRange(cs, i) ==
    LET high == cs[i + 1].high
        low == cs[i + 1].low
        close_prev == cs[i].close
    IN  Max2(high - low, Max2(Abs(high - close_prev), Abs(low - close_prev)))

PlusDM(cs, i) ==
    LET up_move == cs[i + 1].high - cs[i].high
        down_move == cs[i].low - cs[i + 1].low
    IN  IF up_move > down_move /\ up_move > 0 THEN up_move ELSE 0

MinusDM(cs, i) ==
    LET up_move == cs[i + 1].high - cs[i].high
        down_move == cs[i].low - cs[i + 1].low
    IN  IF down_move > up_move /\ down_move > 0 THEN down_move ELSE 0

\* smoothed - (smoothed / period) + value, one step of Wilder's smoothing
wilder_smooth(smoothed, period, value) ==
    FAdd(FSub(smoothed, FDiv(smoothed, RInt(period))), RInt(value))

\* plus_di or minus_di of a step: 100 * smoothed_dm / smoothed_tr, or 0
directional_index(smoothed_dm, smoothed_tr) ==
    IF smoothed_tr.n > 0
    THEN FDiv(FMul(RInt(100), smoothed_dm), smoothed_tr)
    ELSE RInt(0)

\* dx of a step: 100 * abs(plus_di - minus_di) / di_sum, or 0
directional_movement_index(plus_di, minus_di, di_sum) ==
    IF di_sum.n > 0
    THEN FDiv(FMul(RInt(100), RAbs(FSub(plus_di, minus_di))), di_sum)
    ELSE RInt(0)

\* The triple (dx, plus_di, minus_di) a step appends to dx_list.
dx_triple(plus_di, minus_di) ==
    [dx |-> directional_movement_index(plus_di, minus_di,
                                       FAdd(plus_di, minus_di)),
     plus_di |-> plus_di,
     minus_di |-> minus_di]

\* The element of the singleton S: TheOne({e(v) : v \in {x}}) is e(v) for
\* the value v of x, x computed once and before e.
TheOne(S) == CHOOSE x \in S : TRUE

\* The end of a pass of the smoothing loop: the directional indexes of the
\* smoothed sums sm, and the dx of the two, appended to dx_list.
adx_append(dx_list, sm) ==
    TheOne({[tr |-> sm.tr, plus |-> sm.plus, minus |-> sm.minus,
             dx_list |-> Append(dx_list, dx_triple(plus_di, minus_di))] :
                plus_di \in {directional_index(sm.plus, sm.tr)},
                minus_di \in {directional_index(sm.minus, sm.tr)}})

\* One pass of the smoothing loop, step i: st holds the three smoothed sums
\* and the dx_list as they stand before the step.
adx_loop_body(tr_list, plus_dm_list, minus_dm_list, period, i, st) ==
    TheOne({adx_append(st.dx_list, sm) :
               sm \in {[tr |-> wilder_smooth(st.tr, period, tr_list[i]),
                        plus |-> wilder_smooth(st.plus, period, plus_dm_list[i]),
                        minus |-> wilder_smooth(st.minus, period,
                                                minus_dm_list[i])]}})

RECURSIVE adx_loop(_, _, _, _, _, _, _)
\* The smoothing loop over the steps lo..hi, in order, from the state st:
\* the steps up to the middle, then the rest from the state those leave.
adx_loop(tr_list, plus_dm_list, minus_dm_list, period, lo, hi, st) ==
    IF lo > hi THEN st
    ELSE IF lo = hi
    THEN adx_loop_body(tr_list, plus_dm_list, minus_dm_list, period, lo, st)
    ELSE TheOne({adx_loop(tr_list, plus_dm_list, minus_dm_list, period,
                          (lo + hi) \div 2 + 1, hi, lower) :
                    lower \in {adx_loop(tr_list, plus_dm_list, minus_dm_list,
                                        period, lo, (lo + hi) \div 2, st)}})

RECURSIVE SumDxFrom(_, _, _, _)
\* The running total of sum() over dx_list[lo..hi], taken in order from the
\* total so far: the entries up to the middle, then the rest.
SumDxFrom(total, dx_list, lo, hi) ==
    IF lo > hi THEN total
    ELSE IF lo = hi THEN FAdd(total, dx_list[lo].dx)
    ELSE TheOne({SumDxFrom(lower, dx_list, (lo + hi) \div 2 + 1, hi) :
                    lower \in {SumDxFrom(total, dx_list, lo, (lo + hi) \div 2)}})

\* sum(d[0] for d in dx_list[lo..hi])
SumDx(dx_list, lo, hi) == SumDxFrom(RInt(0), dx_list, lo, hi)

\* What calculate_adx returns once dx_list is built, m = len(dx_list).
adx_result(dx_list, m, period) ==
    IF m < period
    THEN IF m > 0
         THEN [adx |-> dx_list[m].dx, plus_di |-> dx_list[m].plus_di,
               minus_di |-> dx_list[m].minus_di, dx_list |-> dx_list]
         ELSE [adx |-> RInt(0), plus_di |-> RInt(0), minus_di |-> RInt(0),
               dx_list |-> <<>>]
    ELSE [adx |-> FDiv(SumDx(dx_list, m - period + 1, m), RInt(period)),
          plus_di |-> dx_list[m].plus_di,
          minus_di |-> dx_list[m].minus_di,
          dx_list |-> dx_list]

\* adx_result with m = len(dx_list)
adx_result_of(dx_list, period) == adx_result(dx_list, Len(dx_list), period)

\* calculate_adx from the three lists on.
adx_of_lists(tr_list, plus_dm_list, minus_dm_list, period) ==
    IF Len(tr_list) < period
    THEN [adx |-> RInt(0), plus_di |-> RInt(0), minus_di |-> RInt(0),
          dx_list |-> <<>>]
    ELSE adx_result_of(
             adx_loop(tr_list, plus_dm_list, minus_dm_list, period,
                      period + 1, Len(tr_list),
                      [tr |-> RInt(SumTo(tr_list, period)),
                       plus |-> RInt(SumTo(plus_dm_list, period)),
                       minus |-> RInt(SumTo(minus_dm_list, period)),
                       dx_list |-> <<>>]).dx_list,
             period)

\* calculate_adx(candles, period): the triple it returns, with the dx_list it
\* built on the way.
calculate_adx(cs, period) ==
    IF Len(cs) < period + 1
    THEN [adx |-> RInt(0), plus_di |-> RInt(0), minus_di |-> RInt(0),
          dx_list |-> <<>>]
    ELSE adx_of_lists([i \in 1..(Len(cs) - 1) |-> TrueRange(cs, i)],
                      [i \in 1..(Len(cs) - 1) |-> PlusDM(cs, i)],
                      [i \in 1..(Len(cs) - 1) |-> MinusDM(cs, i)],
                      period)

\* The regime classify derives from (adx, plus_di, minus_di).
regime_of(adx, plus_di, minus_di) ==
    IF RLt(adx, RInt(20)) THEN "RANGE"
    ELSE IF RLt(adx, RInt(25))
    THEN IF RLt(minus_di, plus_di) THEN "TREND_UP"
         ELSE IF RLt(plus_di, minus_di) THEN "TREND_DOWN"
         ELSE "RANGE"
    ELSE IF RLt(adx, RInt(50))
    THEN IF RLt(minus_di, plus_di) THEN "TREND_UP" ELSE "TREND_DOWN"
    ELSE IF RLt(RAbs(FSub(plus_di, minus_di)), RInt(10)) THEN "CHAOS"
    ELSE IF RLt(minus_di, plus_di) THEN "TREND_UP"
    ELSE "TREND_DOWN"

\* The report classify returns for a history too short to classify.
classify_error_report ==
    [done |-> TRUE, status |-> "ERROR",
     output |-> [regime |-> "UNKNOWN", duration_candles |-> 0,
                 prior_regime |-> "UNKNOWN",
                 internals |-> [adx |-> RInt(0), plus_di |-> RInt(0),
                                minus_di |-> RInt(0)]]]

\* The report classify builds from r, the (adx, plus_di, minus_di) triple of
\* calculate_adx.
classify_ok_report(r, tie_up) ==
    [done |-> TRUE, status |-> "OK",
     output |-> [regime |-> regime_of(r.adx, r.plus_di, r.minus_di),
                 duration_candles |->
                    IF RLt(RInt(20), r.adx)
                    THEN Min2(int(FDiv(r.adx, RInt(5))), 20) ELSE 1,
                 prior_regime |-> "RANGE",
                 trend_strength |->
                    IF RLe(RInt(25), r.adx) THEN "STRONG"
                    ELSE IF RLe(RInt(15), r.adx) THEN "WEAK" ELSE "NONE",
                 internals |-> [adx |-> round(r.adx, 2, tie_up),
                                plus_di |-> round(r.plus_di, 2, tie_up),
                                minus_di |-> round(r.minus_di, 2, tie_up)]]]

\* classify as it would be with the guard len(candles) < self.lookback.
classify_OffByOne(cs, tie_up) ==
    IF Len(cs) < lookback THEN classify_error_report
    ELSE classify_ok_report(calculate_adx(cs, lookback), tie_up)

\* RegimeClassifier.classify(candles)
classify(cs, tie_up) ==
    IF Len(cs) = 0 \/ Len(cs) < lookback + 1 THEN classify_error_report
    ELSE classify_ok_report(calculate_adx(cs, lookback), tie_up)

-----------------------------------------------------------------------------
(* RegimeClassifier over a growing candle history.                          *)

\* The longest candle history the regime specification builds.
MaxRegimeCandles == 15

\* The bars the history is built from: a rising bar and a falling bar.
RegimeCandles == {Candle(0, 1, 0, 1), Candle(2, 2, 1, 1)}

InitRegime ==
    /\ reports = NoReports
    /\ dash = NoDash
    /\ cli = NoCli
    /\ candles = <<>>
    /\ regimeReport = NoRegimeReport
    /\ adxOut = NoAdx
    /\ prices = <<>>
    /\ velocityOut = NoVelocity
    /\ structureReport = NoStructureReport
    /\ NoCalls

\* The provider's history gains a bar; the report of the shorter history is
\* discarded with the cycle that produced it.
RegimeNewCandle ==
    /\ Len(candles) < MaxRegimeCandles
    /\ \E c \in RegimeCandles : candles' = Append(candles, c)
    /\ regimeReport' = NoRegimeReport
    /\ UNCHANGED <<biasVars, adxOut, momentumVars, structureReport, callVars>>

\* regime_agent.classify(candles)
Classify ==
    /\ ~ regimeReport.done
    /\ \E tie_up \in BOOLEAN : regimeReport' = classify(candles, tie_up)
    /\ UNCHANGED <<biasVars, candles, adxOut, momentumVars, structureReport, callVars>>

NextRegime == RegimeNewCandle \/ Classify

SpecRegime == InitRegime /\ [][NextRegime]_vars

\* C7: for every candle sequence, the empty one included, with fewer than
\* lookback + 1 = 15 candles, classify returns status ERROR with regime
\* UNKNOWN and adx = plus_di = minus_di = 0.
C7_ShortHistoryIsError ==
    regimeReport.done /\ Len(candles) < 15 =>
        /\ regimeReport.status = "ERROR"
        /\ regimeReport.output.regime = "UNKNOWN"
        /\ regimeReport.output.internals.adx = RInt(0)
        /\ regimeReport.output.internals.plus_di = RInt(0)
        /\ regimeReport.output.internals.minus_di = RInt(0)

\* A history of 14 candles, one short of lookback + 1, has been classified.
C7_Witness ==
    /\ regimeReport.done
    /\ Len(candles) = 14
    /\ regimeReport.status = "ERROR"

-----------------------------------------------------------------------------
(* calculate_adx over every short history of valid candles.                 *)

\* The longest candle history the ADX specification builds.
MaxAdxCandles == 5

\* The longest smoothing period calculate_adx is called with.
MaxAdxPeriod == 2

\* The price grid of the ADX specification.
AdxPrices == {0, 1}

\* Every valid candle on the grid: low <= open, close <= high, prices >= 0.
\* calculate_adx reads no open, so one open per candle is enough.
AdxCandles ==
    {k \in [open : AdxPrices, high : AdxPrices, low : AdxPrices, close : AdxPrices] :
        /\ k.low <= k.open /\ k.open <= k.high
        /\ k.low <= k.close /\ k.close <= k.high
        /\ k.open = k.low}

InitAdx == InitRegime

AdxNewCandle ==
    /\ Len(candles) < MaxAdxCandles
    /\ \E c \in AdxCandles : candles' = Append(candles, c)
    /\ adxOut' = NoAdx
    /\ UNCHANGED <<biasVars, regimeReport, momentumVars, structureReport, callVars>>

\* calculate_adx(candles, period)
CalculateAdx ==
    /\ ~ adxOut.done
    /\ \E period \in 1..MaxAdxPeriod :
          adxOut' = [done |-> TRUE, period |-> period,
                     result |-> calculate_adx(candles, period)]
    /\ UNCHANGED <<biasVars, candles, regimeReport, momentumVars, structureReport, callVars>>

NextAdx == AdxNewCandle \/ CalculateAdx

SpecAdx == InitAdx /\ [][NextAdx]_vars

InZeroToHundred(x) == RLe(RInt(0), x) /\ RLe(x, RInt(100))

\* C8: for any valid candle sequence, every per-step +DI, -DI and DX that
\* calculate_adx computes, and the ADX, +DI and -DI it returns, lie in [0, 100].
C8_AdxBounded ==
    adxOut.done =>
        /\ InZeroToHundred(adxOut.result.adx)
        /\ InZeroToHundred(adxOut.result.plus_di)
        /\ InZeroToHundred(adxOut.result.minus_di)
        /\ \A i \in 1..Len(adxOut.result.dx_list) :
              /\ InZeroToHundred(adxOut.result.dx_list[i].dx)
              /\ InZeroToHundred(adxOut.result.dx_list[i].plus_di)
              /\ InZeroToHundred(adxOut.result.dx_list[i].minus_di)

-----------------------------------------------------------------------------
(* agents/momentum_reader.py                                                *)

\* calculate_velocity(prices, period), period >= 0, on a list of rational
\* prices. With period = 0 the slice prices[-0:] is the whole list and the
\* code raises (IndexError on an empty list, ZeroDivisionError otherwise):
\* raised = TRUE.
calculate_velocity(ps, period, tie_up) ==
    IF Len(ps) < period THEN [raised |-> FALSE, value |-> RInt(0)]
    ELSE IF period = 0 THEN [raised |-> TRUE, value |-> RInt(0)]
    ELSE
    LET recent_prices == SubSeq(ps, Len(ps) - period + 1, Len(ps))
        total_movement == RSub(recent_prices[Len(recent_prices)],
                               recent_prices[1])
        velocity == RDiv(total_movement, RInt(period))
    IN  [raised |-> FALSE, value |-> round(velocity, 4, tie_up)]

-----------------------------------------------------------------------------
(* calculate_velocity over every short price list.                          *)

\* The longest price list the momentum specification builds.
MaxPrices == 5

\* The price grid of the momentum specification.
MomentumPrices == 0..4

\* The list of whole prices ps as the list of numbers the helpers read.
PriceList(ps) == [i \in 1..Len(ps) |-> RInt(ps[i])]

InitMomentum == InitRegime

MomentumNewPrice ==
    /\ Len(prices) < MaxPrices
    /\ \E x \in MomentumPrices : prices' = Append(prices, x)
    /\ velocityOut' = NoVelocity
    /\ UNCHANGED <<biasVars, candles, regimeVars, structureReport, callVars>>

\* calculate_velocity(prices, period)
CalculateVelocity ==
    /\ ~ velocityOut.done
    /\ \E period \in 0..MaxPrices, tie_up \in BOOLEAN :
          LET r == calculate_velocity(PriceList(prices), period, tie_up)
          IN  velocityOut' = [done |-> TRUE, period |-> period,
                              raised |-> r.raised, value |-> r.value]
    /\ UNCHANGED <<biasVars, candles, regimeVars, prices, structureReport, callVars>>

NextMomentum == MomentumNewPrice \/ CalculateVelocity

SpecMomentum == InitMomentum /\ [][NextMomentum]_vars

\* prices rises by the constant k per bar over its whole length.
RisesBy(ps, k) ==
    /\ Len(ps) >= 2
    /\ \A i \in 1..(Len(ps) - 1) : ps[i + 1] - ps[i] = k

\* C9: for a price series that rises by a constant k per bar over its whole
\* length, calculate_velocity(prices, period) equals k, up to the 4-decimal
\* rounding, for every period not longer than the series.
C9_VelocityEqualsSlope ==
    \A k \in 1..4 :
        /\ velocityOut.done
        /\ velocityOut.period >= 1
        /\ velocityOut.period <= Len(prices)
        /\ RisesBy(prices, k)
        => /\ ~ velocityOut.raised
           /\ RLe(RAbs(RSub(velocityOut.value, RInt(k))), Rat(1, 20000))

-----------------------------------------------------------------------------
(* agents/structure_mapper.py                                               *)

\* STRUCTURE_MIN_DISTANCE_PIPS
STRUCTURE_MIN_DISTANCE_PIPS == 10

\* PIP_SIZE, in dollars: the float of the literal 0.01
PIP_SIZE == fl(Rat(1, 100))

\* The candles of the structure scenarios hold their prices in whole cents;
\* Dollars is the float the code reads from such a field.
Dollars(cents) == fl(Rat(cents, 100))

\* find_swing_highs(candles, left_bars, right_bars); index is the 0-based
\* position the code records.
find_swing_highs(cs, left_bars, right_bars) ==
    LET is_swing(i) ==
            /\ i >= left_bars + 1
            /\ i <= Len(cs) - right_bars
            /\ \A j \in 1..left_bars :
                  RLt(Dollars(cs[i - j].high), Dollars(cs[i].high))
            /\ \A j \in 1..right_bars :
                  RLt(Dollars(cs[i + j].high), Dollars(cs[i].high))
        points == [i \in 1..Len(cs) |->
                      [price |-> Dollars(cs[i].high), index |-> i - 1]]
    IN  SelectSeq(points, LAMBDA p : is_swing(p.index + 1))

\* find_swing_lows(candles, left_bars, right_bars)
find_swing_lows(cs, left_bars, right_bars) ==
    LET is_swing(i) ==
            /\ i >= left_bars + 1
            /\ i <= Len(cs) - right_bars
            /\ \A j \in 1..left_bars :
                  RLt(Dollars(cs[i].low), Dollars(cs[i - j].low))
            /\ \A j \in 1..right_bars :
                  RLt(Dollars(cs[i].low), Dollars(cs[i + j].low))
        points == [i \in 1..Len(cs) |->
                      [price |-> Dollars(cs[i].low), index |-> i - 1]]
    IN  SelectSeq(points, LAMBDA p : is_swing(p.index + 1))

RECURSIVE RSum(_)
\* sum(list) of a list of floats: 0 + list[0] + list[1] + ..., left to right
RSum(list) ==
    IF list = <<>> THEN RInt(0)
    ELSE FAdd(RSum(SubSeq(list, 1, Len(list) - 1)), list[Len(list)])

\* sum(current_cluster) / len(current_cluster)
cluster_average(current_cluster) ==
    FDiv(RSum(current_cluster), RInt(Len(current_cluster)))

RECURSIVE cluster_loop(_, _, _, _, _)
\* The loop of cluster_levels from index i (1-based) on.
cluster_loop(sorted_levels, min_distance, i, clusters, current_cluster) ==
    IF i > Len(sorted_levels)
    THEN Append(clusters, cluster_average(current_cluster))
    ELSE IF RLe(FSub(sorted_levels[i], current_cluster[Len(current_cluster)]),
                min_distance)
    THEN cluster_loop(sorted_levels, min_distance, i + 1, clusters,
                      Append(current_cluster, sorted_levels[i]))
    ELSE cluster_loop(sorted_levels, min_distance, i + 1,
                      Append(clusters, cluster_average(current_cluster)),
                      <<sorted_levels[i]>>)

\* cluster_levels(levels, min_distance)
cluster_levels(levels, min_distance) ==
    IF levels = <<>> THEN <<>>
    ELSE LET sorted_levels == SortSeq(levels, RLt)
         IN  cluster_loop(sorted_levels, min_distance, 2, <<>>,
                          <<sorted_levels[1]>>)

\* determine_level_strength(level_price, all_swing_points, touch_threshold)
determine_level_strength(level_price, all_swing_points, touch_threshold) ==
    LET touches == Cardinality(
            {i \in 1..Len(all_swing_points) :
                RLe(RAbs(FSub(all_swing_points[i].price, level_price)),
                    touch_threshold)})
    IN  IF touches >= 2 THEN "MAJOR" ELSE "MINOR"

\* determine_level_validity(level_price, candles, threshold)
determine_level_validity(level_price, cs, threshold) ==
    IF Len(cs) < 10 THEN "FRESH"
    ELSE
    LET recent_candles == SubSeq(cs, Len(cs) - 9, Len(cs))
        touched(c) == /\ RLe(Dollars(c.low), level_price)
                      /\ RLe(level_price, Dollars(c.high))
        beyond(c) == \/ RLt(FAdd(level_price, threshold), Dollars(c.close))
                     \/ RLt(Dollars(c.close), FSub(level_price, threshold))
        tested == \E i \in 1..10 : touched(recent_candles[i])
        broken == \E i \in 1..10 : /\ touched(recent_candles[i])
                                   /\ beyond(recent_candles[i])
    IN  IF broken THEN "INVALID" ELSE IF tested THEN "USED" ELSE "FRESH"

\* levels[:3]
first_three(levels) == SubSeq(levels, 1, Min2(3, Len(levels)))

\* StructureMapper._create_report; the timestamp, the instrument and the
\* agent's name and version are left out.
structure_create_report(levels_above, levels_below, current_price, status, candle_count, swing_highs_found, swing_lows_found) ==
    [done |-> TRUE,
     status |-> status,
     output |-> [current_price |-> current_price,
                 levels_above |-> levels_above,
                 levels_below |-> levels_below,
                 nearest_above_pips |->
                     IF levels_above # <<>> THEN levels_above[1].distance_pips
                     ELSE "None",
                 nearest_below_pips |->
                     IF levels_below # <<>> THEN levels_below[1].distance_pips
                     ELSE "None"],
     internals |-> [candles_analyzed |-> candle_count,
                    swing_highs_found |-> swing_highs_found,
                    swing_lows_found |-> swing_lows_found,
                    min_distance_pips |-> STRUCTURE_MIN_DISTANCE_PIPS]]

\* The clustered levels map_structure computes from the candles.
clustered_levels_of(cs) ==
    LET swing_highs == find_swing_highs(cs, 3, 3)
        swing_lows == find_swing_lows(cs, 3, 3)
        high_prices == [i \in 1..Len(swing_highs) |-> swing_highs[i].price]
        low_prices == [i \in 1..Len(swing_lows) |-> swing_lows[i].price]
        all_level_prices == high_prices \o low_prices
        min_distance == FMul(RInt(STRUCTURE_MIN_DISTANCE_PIPS), PIP_SIZE)
    IN  cluster_levels(all_level_prices, min_distance)

\* StructureMapper.map_structure(candles). ties_up is the set of level prices
\* whose rounding, where it meets a tie, goes up.
map_structure(cs, ties_up) ==
    IF Len(cs) < 10
    THEN structure_create_report(<<>>, <<>>, RInt(0), "INSUFFICIENT_DATA",
                                 Len(cs), 0, 0)
    ELSE
    LET current_price == Dollars(cs[Len(cs)].close)
        swing_highs == find_swing_highs(cs, 3, 3)
        swing_lows == find_swing_lows(cs, 3, 3)
        all_swings == swing_highs \o swing_lows
        clustered_levels == clustered_levels_of(cs)
        levels_above ==
            first_three(SortSeq(
                SelectSeq(clustered_levels, LAMBDA l : RLt(current_price, l)),
                RLt))
        levels_below ==
            first_three(SortSeq(
                SelectSeq(clustered_levels, LAMBDA l : RLt(l, current_price)),
                LAMBDA a, b : RLt(b, a)))
        touch_threshold == FMul(RInt(STRUCTURE_MIN_DISTANCE_PIPS), PIP_SIZE)
        detailed(price, distance) ==
            [price |-> round(price, 2, price \in ties_up),
             strength |->
                 determine_level_strength(price, all_swings, touch_threshold),
             validity |-> determine_level_validity(price, cs, touch_threshold),
             distance_pips |->
                 round(FDiv(distance, PIP_SIZE), 1, price \in ties_up)]
        levels_above_detailed ==
            [i \in 1..Len(levels_above) |->
                detailed(levels_above[i],
                         FSub(levels_above[i], current_price))]
        levels_below_detailed ==
            [i \in 1..Len(levels_below) |->
                detailed(levels_below[i],
                         FSub(current_price, levels_below[i]))]
    IN  structure_create_report(levels_above_detailed, levels_below_detailed,
                                round(current_price, 2, current_price \in ties_up),
                                "ANALYSIS_COMPLETE", Len(cs),
                                Len(swing_highs), Len(swing_lows))

-----------------------------------------------------------------------------
(* StructureMapper over candle histories with a few swing bars.             *)

\* The most swing bars a history of the structure specification holds.
MaxSpikes == 2

\* A flat bar at 50 cents.
Filler == Candle(50, 50, 50, 50)

\* n flat bars
Fillers(n) == [i \in 1..n |-> Filler]

\* The highs and lows, in cents, of a swing bar; a high or low of 50 is no
\* swing, and a bar with both is a flat bar, which SpikeCandles leaves out.
HighGrid == {50, 51, 60, 72}

LowGrid == {38, 49, 50}

SpikeCandles ==
    {Candle(50, h, l, 50) : h \in HighGrid, l \in LowGrid} \ {Filler}

\* The closes, in cents, of the most recent bar.
CloseGrid == {30, 50, 55, 80}

LastCandle(c) == Candle(50, Max2(50, c), Min2(50, c), c)

RECURSIVE SpikeHistories(_)
\* Five flat bars, then k swing bars with two or three flat bars between
\* neighbours.
SpikeHistories(k) ==
    IF k = 0 THEN {Fillers(5)}
    ELSE {h \o Fillers(gap) \o <<spike>> :
              h \in SpikeHistories(k - 1),
              gap \in (IF k = 1 THEN {0} ELSE {2, 3}),
              spike \in SpikeCandles}

\* The histories of the structure specification: up to MaxSpikes swing bars,
\* three flat bars and the most recent bar.
StructureHistories ==
    UNION {{h \o Fillers(3) \o <<LastCandle(c)>> :
                h \in SpikeHistories(k), c \in CloseGrid} : k \in 0..MaxSpikes}

InitStructure ==
    /\ reports = NoReports
    /\ dash = NoDash
    /\ cli = NoCli
    /\ candles \in StructureHistories
    /\ regimeReport = NoRegimeReport
    /\ adxOut = NoAdx
    /\ prices = <<>>
    /\ velocityOut = NoVelocity
    /\ structureReport = NoStructureReport
    /\ NoCalls

\* x lies exactly halfway between two multiples of 10^-ndigits.
IsTie(x, ndigits) == 2 * ((x.n * Pow10(ndigits)) % x.d) = x.d

\* The level prices of the history at which one of the report's roundings
\* meets a tie.
TieLevels(cs) ==
    LET levels == clustered_levels_of(cs)
        current_price == Dollars(cs[Len(cs)].close)
    IN  {levels[i] : i \in {j \in 1..Len(levels) :
            \/ IsTie(levels[j], 2)
            \/ IsTie(FDiv(FSub(levels[j], current_price), PIP_SIZE), 1)}}

\* structure_agent.map_structure(candles)
MapStructure ==
    /\ ~ structureReport.done
    /\ \E ties_up \in SUBSET TieLevels(candles) :
          structureReport' = map_structure(candles, ties_up)
    /\ UNCHANGED <<biasVars, candles, regimeVars, momentumVars, callVars>>

NextStructure == MapStructure

SpecStructure == InitStructure /\ [][NextStructure]_vars

\* The prices of a list of reported levels.
LevelPrices(levels) == [i \in 1..Len(levels) |-> levels[i].price]

\* The set of the levels of a list.
LevelSet(levels) == {levels[i] : i \in 1..Len(levels)}

\* The levels of the set L above (side = 1) or below (side = -1) the close of
\* the most recent candle.
OnSide(L, side) ==
    LET current_price == Dollars(candles[Len(candles)].close)
    IN  {l \in L : IF side = 1 THEN RLt(current_price, l)
                                ELSE RLt(l, current_price)}

\* The number of levels of S, the levels of one side, that lie nearer to the
\* current price than l.
Rank(S, l, side) ==
    Cardinality({m \in S : IF side = 1 THEN RLt(m, l) ELSE RLt(l, m)})

\* levels, a list of the report, holds the three nearest levels of S, the
\* clustered levels of its side (all of them when there are fewer), nearest
\* first, each within half a cent of its reported price.
HoldsNearest(levels, S, side) ==
    /\ Len(levels) = Min2(3, Cardinality(S))
    /\ \A i \in 1..Len(levels) :
          \E l \in S :
              /\ Rank(S, l, side) = i - 1
              /\ RLe(RAbs(RSub(levels[i].price, l)), Rat(1, 200))

\* No two levels of the list cluster_levels returned are the same or differ
\* by less than min_distance.
ClustersApart(clustered) ==
    \A i, j \in 1..Len(clustered) :
        i # j => /\ clustered[i] # clustered[j]
                 /\ ~ RLt(RAbs(RSub(clustered[i], clustered[j])),
                          FMul(RInt(STRUCTURE_MIN_DISTANCE_PIPS), PIP_SIZE))

\* C10: in every report levels_above are all above the current
\* price and strictly ascending, levels_below all below it and strictly
\* descending, each list has at most 3 entries and holds the 3 clustered
\* levels nearest to the current price on its side, and no two levels returned
\* by cluster_levels differ by less than min_distance.
C10_LevelsOrdered ==
    structureReport.done =>
        LET out == structureReport.output
            above == LevelPrices(out.levels_above)
            below == LevelPrices(out.levels_below)
            clustered == clustered_levels_of(candles)
        IN  /\ \A i \in 1..Len(above) : RLt(out.current_price, above[i])
            /\ \A i \in 1..(Len(above) - 1) : RLt(above[i], above[i + 1])
            /\ \A i \in 1..Len(below) : RLt(below[i], out.current_price)
            /\ \A i \in 1..(Len(below) - 1) : RLt(below[i + 1], below[i])
            /\ Len(above) <= 3
            /\ Len(below) <= 3
            /\ structureReport.status = "ANALYSIS_COMPLETE" =>
                  /\ HoldsNearest(out.levels_above,
                                  OnSide(LevelSet(clustered), 1), 1)
                  /\ HoldsNearest(out.levels_below,
                                  OnSide(LevelSet(clustered), -1), -1)
                  /\ ClustersApart(clustered)

\* What does hold of every report: the reported prices are not below (not
\* above) the reported current price and are strictly ascending
\* (descending); each list has at most 3 entries and holds the 3 clustered
\* levels nearest to the current price on its side, which lie strictly above
\* (below) it before the report rounds them to the cent; and the levels of
\* cluster_levels lie min_distance or more apart.
LevelsOrderedBeforeRounding ==
    structureReport.done =>
        LET out == structureReport.output
            above == LevelPrices(out.levels_above)
            below == LevelPrices(out.levels_below)
            clustered == clustered_levels_of(candles)
        IN  /\ \A i \in 1..Len(above) : RLe(out.current_price, above[i])
            /\ \A i \in 1..(Len(above) - 1) : RLt(above[i], above[i + 1])
            /\ \A i \in 1..Len(below) : RLe(below[i], out.current_price)
            /\ \A i \in 1..(Len(below) - 1) : RLt(below[i + 1], below[i])
            /\ Len(above) <= 3
            /\ Len(below) <= 3
            /\ structureReport.status = "ANALYSIS_COMPLETE" =>
                  /\ HoldsNearest(out.levels_above,
                                  OnSide(LevelSet(clustered), 1), 1)
                  /\ HoldsNearest(out.levels_below,
                                  OnSide(LevelSet(clustered), -1), -1)
                  /\ ClustersApart(clustered)

-----------------------------------------------------------------------------
(* cluster_levels applied to its own result.                                *)

\* No cycle runs and no helper has been called on a cycle's data.
ReadersIdle ==
    /\ reports = NoReports
    /\ dash = NoDash
    /\ cli = NoCli
    /\ candles = <<>>
    /\ regimeReport = NoRegimeReport
    /\ adxOut = NoAdx
    /\ prices = <<>>
    /\ velocityOut = NoVelocity
    /\ structureReport = NoStructureReport

\* The longest list of prices handed to cluster_levels.
MaxLevels == 4

\* The prices, in cents, the lists are made of.
ClusterCents == {41, 46, 51, 68}

ClusterPrices == {Dollars(c) : c \in ClusterCents}

\* The values of min_distance: none, and the one map_structure passes.
ClusterDistances ==
    {RInt(0), FMul(RInt(STRUCTURE_MIN_DISTANCE_PIPS), PIP_SIZE)}

ClusterLists == UNION {[1..k -> ClusterPrices] : k \in 0..MaxLevels}

InitCluster ==
    /\ ReadersIdle
    /\ recencyCall = NoCall
    /\ baselineCall = NoCall
    /\ cycleRun = NoCall
    /\ volatilityCall = NoCall
    /\ momentumCall = NoCall
    /\ riskCall = NoCall
    /\ clusterCall \in {[done |-> FALSE, passes |-> 0, levels |-> L,
                         min_distance |-> d] :
                            L \in ClusterLists, d \in ClusterDistances}
    /\ sessionCall = NoCall

\* clustered = cluster_levels(levels, min_distance)
ClusterLevels ==
    /\ clusterCall.passes = 0
    /\ clusterCall' =
          [done |-> FALSE, passes |-> 1, levels |-> clusterCall.levels,
           min_distance |-> clusterCall.min_distance,
           clustered |-> cluster_levels(clusterCall.levels,
                                        clusterCall.min_distance)]
    /\ UNCHANGED <<cycleVars, sessionCall, riskCall, momentumCall, volatilityCall, cycleRun, baselineCall, recencyCall>>

\* reclustered = cluster_levels(clustered, min_distance)
ClusterAgain ==
    /\ clusterCall.passes = 1
    /\ clusterCall' =
          [done |-> TRUE, passes |-> 2, levels |-> clusterCall.levels,
           min_distance |-> clusterCall.min_distance,
           clustered |-> clusterCall.clustered,
           reclustered |-> cluster_levels(clusterCall.clustered,
                                          clusterCall.min_distance)]
    /\ UNCHANGED <<cycleVars, sessionCall, riskCall, momentumCall, volatilityCall, cycleRun, baselineCall, recencyCall>>

NextCluster == ClusterLevels \/ ClusterAgain

SpecCluster == InitCluster /\ [][NextCluster]_vars

\* C11: for every list of prices and every min_distance >= 0, clustering the
\* clustered list again returns the same list.
C11_ClusterIdempotent ==
    clusterCall.done => clusterCall.reclustered = clusterCall.clustered

-----------------------------------------------------------------------------
(* agents/session_clock.py                                                  *)

\* The session windows of config/settings.py, in UTC hours.
ASIA_SESSION_START == 0

ASIA_SESSION_END == 9

LONDON_SESSION_START == 7

LONDON_SESSION_END == 16

NEW_YORK_SESSION_START == 13

NEW_YORK_SESSION_END == 22

\* self.sessions as SessionClock.__init__ builds it
DefaultSessions ==
    [ASIA |-> [start |-> ASIA_SESSION_START, end |-> ASIA_SESSION_END],
     LONDON |-> [start |-> LONDON_SESSION_START, end |-> LONDON_SESSION_END],
     NEW_YORK |-> [start |-> NEW_YORK_SESSION_START,
                   end |-> NEW_YORK_SESSION_END]]

\* is_within_session with the closing hour counted as part of the session.
is_within_session_ClosedEnd(current_hour, start_hour, end_hour) ==
    IF start_hour < end_hour
    THEN start_hour <= current_hour /\ current_hour <= end_hour
    ELSE current_hour >= start_hour \/ current_hour <= end_hour

\* is_within_session(current_hour, start_hour, end_hour)
is_within_session(current_hour, start_hour, end_hour) ==
    IF start_hour < end_hour
    THEN start_hour <= current_hour /\ current_hour < end_hour
    ELSE current_hour >= start_hour \/ current_hour < end_hour

\* minutes_until_session_end(current_hour, current_minute, end_hour)
minutes_until_session_end(current_hour, current_minute, end_hour) ==
    LET current_total_minutes == current_hour * 60 + current_minute
        end_total_minutes == end_hour * 60
    IN  IF end_total_minutes > current_total_minutes
        THEN end_total_minutes - current_total_minutes
        ELSE (24 * 60 - current_total_minutes) + end_total_minutes

\* minutes_since_session_start(current_hour, current_minute, start_hour)
minutes_since_session_start(current_hour, current_minute, start_hour) ==
    LET current_total_minutes == current_hour * 60 + current_minute
        start_total_minutes == start_hour * 60
    IN  IF current_total_minutes >= start_total_minutes
        THEN current_total_minutes - start_total_minutes
        ELSE (24 * 60 - start_total_minutes) + current_total_minutes

\* format_duration(minutes)
format_duration(minutes) ==
    LET hours == minutes \div 60
        mins == minutes % 60
    IN  IF hours > 0 THEN ToString(hours) \o "h " \o ToString(mins) \o "m"
        ELSE ToString(mins) \o "m"

\* SessionClock._determine_active_session(asia, london, new_york)
determine_active_session(asia, london, new_york) ==
    IF london /\ new_york THEN "OVERLAP_LONDON_NY"
    ELSE IF london THEN "LONDON"
    ELSE IF new_york THEN "NEW_YORK"
    ELSE IF asia THEN "ASIA"
    ELSE "OFF_HOURS"

\* _determine_boundary_flag with a closing half hour that begins after the
\* thirtieth minute before the close.
determine_boundary_flag_CloseBelow30(session, age_minutes, minutes_to_close, london_active, new_york_active) ==
    IF london_active /\ new_york_active THEN "OVERLAP_ACTIVE"
    ELSE IF age_minutes <= 30 /\ session # "OFF_HOURS" THEN "SESSION_OPEN_30MIN"
    ELSE IF minutes_to_close < 30 /\ session # "OFF_HOURS"
    THEN "SESSION_CLOSE_30MIN"
    ELSE "NONE"

\* _determine_boundary_flag with an opening half hour that ends before its
\* thirtieth minute.
determine_boundary_flag_OpenBelow30(session, age_minutes, minutes_to_close, london_active, new_york_active) ==
    IF london_active /\ new_york_active THEN "OVERLAP_ACTIVE"
    ELSE IF age_minutes < 30 /\ session # "OFF_HOURS" THEN "SESSION_OPEN_30MIN"
    ELSE IF minutes_to_close <= 30 /\ session # "OFF_HOURS"
    THEN "SESSION_CLOSE_30MIN"
    ELSE "NONE"

\* SessionClock._determine_boundary_flag
determine_boundary_flag(session, age_minutes, minutes_to_close, london_active, new_york_active) ==
    IF london_active /\ new_york_active THEN "OVERLAP_ACTIVE"
    ELSE IF age_minutes <= 30 /\ session # "OFF_HOURS" THEN "SESSION_OPEN_30MIN"
    ELSE IF minutes_to_close <= 30 /\ session # "OFF_HOURS"
    THEN "SESSION_CLOSE_30MIN"
    ELSE "NONE"

\* SessionClock._get_next_transition
get_next_transition(current_session) ==
    CASE current_session = "OFF_HOURS" -> [session |-> "ASIA", in |-> "Soon"]
      [] current_session = "ASIA" ->
            [session |-> "LONDON", in |-> "After Asia close"]
      [] current_session = "LONDON" ->
            [session |-> "OVERLAP_LONDON_NY", in |-> "When NY opens"]
      [] current_session = "OVERLAP_LONDON_NY" ->
            [session |-> "NEW_YORK", in |-> "After London close"]
      [] current_session = "NEW_YORK" ->
            [session |-> "OFF_HOURS", in |-> "After NY close"]
      [] OTHER -> [session |-> "UNKNOWN", in |-> "UNKNOWN"]

\* The session whose opening (closing) hour times the age (the time to close)
\* of the active session; none when no session is active.
age_session(active_session) ==
    IF active_session = "OVERLAP_LONDON_NY" THEN "NEW_YORK" ELSE active_session

close_session(active_session) ==
    IF active_session = "OVERLAP_LONDON_NY" THEN "LONDON" ELSE active_session

\* SessionClock.check_session(timestamp) of a clock with the windows sessions;
\* the timestamp, the instrument and the agent's name and version are left
\* out of the report.
check_session(sessions, current_hour, current_minute) ==
    LET asia_active == is_within_session(current_hour, sessions.ASIA.start,
                                         sessions.ASIA.end)
        london_active == is_within_session(current_hour, sessions.LONDON.start,
                                           sessions.LONDON.end)
        new_york_active == is_within_session(current_hour,
                                             sessions.NEW_YORK.start,
                                             sessions.NEW_YORK.end)
        active_session ==
            determine_active_session(asia_active, london_active, new_york_active)
        session_age_minutes ==
            IF active_session = "OFF_HOURS" THEN 0
            ELSE minutes_since_session_start(
                     current_hour, current_minute,
                     sessions[age_session(active_session)].start)
        minutes_to_close ==
            IF active_session = "OFF_HOURS" THEN 0
            ELSE minutes_until_session_end(
                     current_hour, current_minute,
                     sessions[close_session(active_session)].end)
    IN  [status |-> "TIME_CHECK_COMPLETE",
         output |-> [active_session |-> active_session,
                     session_age |-> format_duration(session_age_minutes),
                     time_to_close |-> format_duration(minutes_to_close),
                     boundary_flag |->
                         determine_boundary_flag(active_session,
                                                 session_age_minutes,
                                                 minutes_to_close,
                                                 london_active, new_york_active),
                     next_transition |-> get_next_transition(active_session)],
         internals |-> [current_hour_utc |-> current_hour,
                        current_minute |-> current_minute,
                        asia_active |-> asia_active,
                        london_active |-> london_active,
                        new_york_active |-> new_york_active,
                        session_age_minutes |-> session_age_minutes,
                        minutes_to_close |-> minutes_to_close]]

-----------------------------------------------------------------------------
(* SessionClock.check_session at every hour of the day.                     *)

\* The windows a clock is built with: those of config/settings.py, and the
\* same with an Asia session that opens at 22:00 and crosses midnight.
SessionWindows ==
    {DefaultSessions,
     [DefaultSessions EXCEPT !.ASIA = [start |-> 22, end |-> 7]]}

\* The minutes of the hour the clock is read at.
SessionMinutes == 0..59

InitSession ==
    /\ ReadersIdle
    /\ recencyCall = NoCall
    /\ baselineCall = NoCall
    /\ cycleRun = NoCall
    /\ volatilityCall = NoCall
    /\ momentumCall = NoCall
    /\ riskCall = NoCall
    /\ clusterCall = NoCall
    /\ sessionCall \in {[done |-> FALSE, sessions |-> w, hour |-> h,
                         minute |-> mi] :
                            w \in SessionWindows, h \in 0..23,
                            mi \in SessionMinutes}

\* session_agent.check_session(timestamp)
CheckSession ==
    /\ ~ sessionCall.done
    /\ "sessions" \in DOMAIN sessionCall
    /\ sessionCall' =
          [done |-> TRUE, sessions |-> sessionCall.sessions,
           hour |-> sessionCall.hour, minute |-> sessionCall.minute,
           report |-> check_session(sessionCall.sessions, sessionCall.hour,
                                    sessionCall.minute)]
    /\ UNCHANGED <<cycleVars, clusterCall, riskCall, momentumCall, volatilityCall, cycleRun, baselineCall, recencyCall>>

NextSession == CheckSession

SpecSession == InitSession /\ [][NextSession]_vars

\* hour lies in the window from start to end, which crosses midnight when
\* start is not before end.
InWindow(hour, window) ==
    IF window.start < window.end
    THEN window.start <= hour /\ hour < window.end
    ELSE hour >= window.start \/ hour < window.end

\* The session the priority overlap > LONDON > NEW_YORK > ASIA > OFF_HOURS
\* picks among the active ones.
PrioritySession(asia, london, new_york) ==
    CASE london /\ new_york -> "OVERLAP_LONDON_NY"
      [] london /\ ~ new_york -> "LONDON"
      [] ~ london /\ new_york -> "NEW_YORK"
      [] ~ london /\ ~ new_york /\ asia -> "ASIA"
      [] OTHER -> "OFF_HOURS"

\* The report of a clock with the default windows read at hour:minute names
\* the session, and carries the flag when one is given.
DefaultAt(hour, minute, session, flag) ==
    /\ sessionCall.sessions = DefaultSessions
    /\ sessionCall.hour = hour
    /\ sessionCall.minute = minute
    => /\ sessionCall.report.output.active_session = session
       /\ flag # "" => sessionCall.report.output.boundary_flag = flag

\* C12: at every hour each session is active by the window test, the active
\* session follows the priority overlap > LONDON > NEW_YORK > ASIA >
\* OFF_HOURS, and with the default windows 03:00 is ASIA, 08:30 LONDON, 14:00
\* OVERLAP_LONDON_NY with the flag OVERLAP_ACTIVE, 18:00 NEW_YORK and 23:00
\* OFF_HOURS.
C12_SessionByPriority ==
    sessionCall.done =>
        LET w == sessionCall.sessions
            h == sessionCall.hour
            r == sessionCall.report
        IN  /\ r.internals.asia_active = InWindow(h, w.ASIA)
            /\ r.internals.london_active = InWindow(h, w.LONDON)
            /\ r.internals.new_york_active = InWindow(h, w.NEW_YORK)
            /\ r.output.active_session =
                  PrioritySession(InWindow(h, w.ASIA), InWindow(h, w.LONDON),
                                  InWindow(h, w.NEW_YORK))
            /\ DefaultAt(3, 0, "ASIA", "")
            /\ DefaultAt(8, 30, "LONDON", "")
            /\ DefaultAt(14, 0, "OVERLAP_LONDON_NY", "OVERLAP_ACTIVE")
            /\ DefaultAt(18, 0, "NEW_YORK", "")
            /\ DefaultAt(23, 0, "OFF_HOURS", "")

\* The clock with the default windows has reported the overlap at 14:00.
C12_Witness ==
    /\ sessionCall.done
    /\ sessionCall.sessions = DefaultSessions
    /\ sessionCall.hour = 14
    /\ sessionCall.minute = 0
    /\ sessionCall.report.output.active_session = "OVERLAP_LONDON_NY"
    /\ sessionCall.report.output.boundary_flag = "OVERLAP_ACTIVE"

-----------------------------------------------------------------------------
(* agents/risk_calculator.py                                                *)

\* ACCOUNT_EQUITY, in dollars
ACCOUNT_EQUITY == RInt(10000)

\* RISK_PER_TRADE
RISK_PER_TRADE == Rat(1, 100)

\* MAX_DAILY_LOSS
MAX_DAILY_LOSS == Rat(3, 100)

\* MAX_CONCURRENT_POSITIONS
MAX_CONCURRENT_POSITIONS == 2

\* calculate_pip_value(INSTRUMENT, lot_size=1.0) for XAU/USD
pip_value_per_lot == RInt(1)

\* calculate_position_size(risk_amount, stop_distance_pips, pip_value_per_lot)
calculate_position_size(risk_amount, stop_distance_pips, pip_value, tie_up) ==
    IF RLe(stop_distance_pips, RInt(0)) \/ RLe(pip_value, RInt(0))
    THEN RInt(0)
    ELSE round(RDiv(risk_amount, RMul(stop_distance_pips, pip_value)), 2,
               tie_up)

\* calculate_risk_for_position(lot_size, stop_distance_pips, pip_value_per_lot)
calculate_risk_for_position(lot_size, stop_distance_pips, pip_value, tie_up) ==
    round(RMul(RMul(lot_size, stop_distance_pips), pip_value), 2, tie_up)

\* stop_distances = [20, 30, 50, 100, 150, 200]
common_stop_distances ==
    <<RInt(20), RInt(30), RInt(50), RInt(100), RInt(150), RInt(200)>>

\* Python's None, where a number may stand
None == [none |-> TRUE]

\* A stop distance handed to calculate is truthy: neither None nor zero.
StopGiven(stop_distance_pips) ==
    stop_distance_pips # None /\ stop_distance_pips.n # 0

\* The stop distances of the position size table.
stop_distances_of(stop_distance_pips) ==
    IF /\ StopGiven(stop_distance_pips)
       /\ \A i \in 1..Len(common_stop_distances) :
             common_stop_distances[i] # stop_distance_pips
    THEN SortSeq(Append(common_stop_distances, stop_distance_pips), RLt)
    ELSE common_stop_distances

\* One row of the position size table. ties_up is the set of the report's
\* fields whose rounding, where it meets a tie, goes up.
position_size_row(stop, risk_per_trade_dollars, equity, ties_up) ==
    LET lot_size == calculate_position_size(risk_per_trade_dollars, stop,
                                            pip_value_per_lot,
                                            "lot_size" \in ties_up)
        actual_risk == calculate_risk_for_position(lot_size, stop,
                                                   pip_value_per_lot,
                                                   "risk_dollars" \in ties_up)
    IN  [stop_pips |-> stop,
         lot_size |-> lot_size,
         risk_dollars |-> actual_risk,
         risk_percent |->
             round(RMul(RDiv(actual_risk, equity), RInt(100)), 2,
                   "risk_percent" \in ties_up)]

\* RiskCalculator._create_report; the timestamp, the instrument and the
\* agent's name and version are left out.
risk_create_report(calc, risk_per_trade_dollars, max_daily_loss_dollars, daily_limit_remaining, daily_limit_breached, can_open_new, position_size_table, specific_calculation) ==
    LET output ==
            [equity |-> calc.equity,
             risk_per_trade_dollars |-> risk_per_trade_dollars,
             risk_per_trade_percent |-> RMul(RISK_PER_TRADE, RInt(100)),
             daily_pnl |-> calc.daily_pnl,
             daily_limit_remaining |-> daily_limit_remaining,
             daily_limit_breached |-> daily_limit_breached,
             open_positions |-> calc.open_positions,
             max_concurrent |-> MAX_CONCURRENT_POSITIONS,
             can_open_new_position |-> can_open_new,
             position_size_table |-> position_size_table]
    IN  [raised |-> FALSE,
         status |-> "CALCULATION_COMPLETE",
         output |->
             IF specific_calculation # None
             THEN output @@ [specific_calculation |-> specific_calculation]
             ELSE output,
         internals |-> [max_daily_loss_dollars |-> max_daily_loss_dollars,
                        max_daily_loss_percent |->
                            RMul(MAX_DAILY_LOSS, RInt(100)),
                        pip_value_per_lot |-> pip_value_per_lot,
                        pip_size |-> Rat(1, 100)]]

\* RiskCalculator.calculate(stop_distance_pips) of a calculator calc with the
\* fields equity, daily_pnl and open_positions. The division by self.equity at
\* line 202 raises ZeroDivisionError when the equity is zero.
risk_calculate(calc, stop_distance_pips, ties_up) ==
    LET risk_per_trade_dollars == RMul(calc.equity, RISK_PER_TRADE)
        max_daily_loss_dollars == RMul(calc.equity, MAX_DAILY_LOSS)
        daily_limit_remaining == RAdd(max_daily_loss_dollars, calc.daily_pnl)
        stop_distances == stop_distances_of(stop_distance_pips)
        specific_lot_size ==
            calculate_position_size(risk_per_trade_dollars, stop_distance_pips,
                                    pip_value_per_lot, "lot_size" \in ties_up)
    IN  IF calc.equity.n = 0
        THEN [raised |-> TRUE, exception |-> "ZeroDivisionError"]
        ELSE risk_create_report(
                 calc,
                 round(risk_per_trade_dollars, 2,
                       "risk_per_trade_dollars" \in ties_up),
                 round(max_daily_loss_dollars, 2,
                       "max_daily_loss_dollars" \in ties_up),
                 round(daily_limit_remaining, 2,
                       "daily_limit_remaining" \in ties_up),
                 RLe(daily_limit_remaining, RInt(0)),
                 calc.open_positions < MAX_CONCURRENT_POSITIONS,
                 [i \in 1..Len(stop_distances) |->
                     position_size_row(stop_distances[i],
                                       risk_per_trade_dollars, calc.equity,
                                       ties_up)],
                 IF StopGiven(stop_distance_pips)
                 THEN [stop_pips |-> stop_distance_pips,
                       lot_size |-> specific_lot_size,
                       risk_dollars |->
                           calculate_risk_for_position(
                               specific_lot_size, stop_distance_pips,
                               pip_value_per_lot, "risk_dollars" \in ties_up)]
                 ELSE None)

\* RiskCalculator.__init__(equity, daily_pnl, open_positions): the fields of
\* the account state.
risk_init(equity, daily_pnl, open_positions) ==
    [equity |-> IF equity # None THEN equity ELSE ACCOUNT_EQUITY,
     daily_pnl |-> daily_pnl,
     open_positions |-> open_positions]

\* update_state that passes over an argument of zero as it does over None.
update_state_Truthy(calc, equity, daily_pnl, open_positions) ==
    [equity |-> IF equity # None /\ equity.n # 0 THEN equity ELSE calc.equity,
     daily_pnl |-> IF daily_pnl # None /\ daily_pnl.n # 0 THEN daily_pnl
                   ELSE calc.daily_pnl,
     open_positions |-> IF open_positions # None /\ open_positions.n # 0
                        THEN open_positions.n
                        ELSE calc.open_positions]

\* RiskCalculator.update_state(equity, daily_pnl, open_positions) of a
\* calculator calc: its fields afterwards. A count of open positions is
\* handed over as RInt(count).
update_state(calc, equity, daily_pnl, open_positions) ==
    [equity |-> IF equity # None THEN equity ELSE calc.equity,
     daily_pnl |-> IF daily_pnl # None THEN daily_pnl ELSE calc.daily_pnl,
     open_positions |-> IF open_positions # None THEN open_positions.n
                        ELSE calc.open_positions]

-----------------------------------------------------------------------------
(* RiskCalculator.calculate over accounts and stop distances.               *)

\* The account equities, in cents: none, the default, one with odd cents, a
\* small one and an overdrawn one.
EquityCents == {0, 1000000, 1000055, 25050, -10000}

\* Today's profit and loss, in cents.
DailyPnlCents == {0, -5000, -30000}

\* The stop distances handed to calculate, in tenths of a pip, besides the
\* call without one.
StopTenths == {0, 3, 125, 500, 2000, -50}

RiskStops == {None} \cup {Rat(t, 10) : t \in StopTenths}

RiskCalculators ==
    {[equity |-> Rat(e, 100), daily_pnl |-> Rat(p, 100), open_positions |-> k] :
        e \in EquityCents, p \in DailyPnlCents, k \in {0, 2}}

\* The fields of the report that calculate rounds.
RoundedRiskFields ==
    {"risk_per_trade_dollars", "max_daily_loss_dollars",
     "daily_limit_remaining", "lot_size", "risk_dollars", "risk_percent"}

InitRisk ==
    /\ ReadersIdle
    /\ recencyCall = NoCall
    /\ baselineCall = NoCall
    /\ cycleRun = NoCall
    /\ volatilityCall = NoCall
    /\ momentumCall = NoCall
    /\ clusterCall = NoCall
    /\ sessionCall = NoCall
    /\ riskCall \in {[done |-> FALSE, calc |-> c, stop_distance_pips |-> s] :
                        c \in RiskCalculators, s \in RiskStops}

\* risk_agent.calculate(stop_distance_pips)
RiskCalculate ==
    /\ ~ riskCall.done
    /\ "calc" \in DOMAIN riskCall
    /\ \E ties_up \in SUBSET RoundedRiskFields :
          riskCall' =
              [done |-> TRUE, calc |-> riskCall.calc,
               stop_distance_pips |-> riskCall.stop_distance_pips,
               report |-> risk_calculate(riskCall.calc,
                                         riskCall.stop_distance_pips, ties_up)]
    /\ UNCHANGED <<cycleVars, clusterCall, sessionCall, momentumCall, volatilityCall, cycleRun, baselineCall, recencyCall>>

NextRisk == RiskCalculate

SpecRisk == InitRisk /\ [][NextRisk]_vars

\* The rows of the report's table with a stop distance above zero.
RiskRows ==
    LET table == riskCall.report.output.position_size_table
    IN  {table[i] : i \in {j \in 1..Len(table) : RLt(RInt(0), table[j].stop_pips)}}

\* v is x rounded to 2 decimals: a whole number of hundredths within half a
\* hundredth of x.
IsRounded2(v, x) ==
    /\ (v.n * 100) % v.d = 0
    /\ RLe(RAbs(RSub(v, x)), Rat(1, 200))

\* The default account with a stop of 50 pips: 100.00 dollars at risk and a
\* lot size of 2.00.
RiskScenario ==
    /\ riskCall.calc.equity = RInt(10000)
    /\ riskCall.stop_distance_pips = RInt(50)
    => /\ riskCall.report.output.risk_per_trade_dollars = RInt(100)
       /\ riskCall.report.output.specific_calculation.lot_size = RInt(2)
       /\ \A row \in RiskRows : row.stop_pips = RInt(50) => row.lot_size = RInt(2)

\* C13: calculate returns a report whose risk_per_trade_dollars is equity x
\* risk fraction, and every row of the table with a stop distance above zero
\* has lot_size = riskDollars / (stopPips x pipValuePerLot) rounded to 2
\* decimals and risk_dollars = lot_size x stopPips x pipValuePerLot; equity
\* 10000 and a stop of 50 pips give 100.00 and 2.00.
C13_RiskFormulas ==
    riskCall.done =>
        LET riskDollars == RMul(riskCall.calc.equity, RISK_PER_TRADE)
        IN  /\ ~ riskCall.report.raised
            /\ riskCall.report.output.risk_per_trade_dollars = riskDollars
            /\ \A row \in RiskRows :
                  /\ IsRounded2(row.lot_size,
                                RDiv(riskDollars,
                                     RMul(row.stop_pips, pip_value_per_lot)))
                  /\ row.risk_dollars =
                        RMul(RMul(row.lot_size, row.stop_pips),
                             pip_value_per_lot)
            /\ RiskScenario

\* What does hold: whenever calculate returns a report, which it does unless
\* the equity is zero, its risk_per_trade_dollars is equity x risk fraction
\* rounded to 2 decimals, and every row with a stop distance above zero has
\* lot_size = riskDollars / (stopPips x pipValuePerLot) rounded to 2 decimals,
\* riskDollars being the unrounded product, and risk_dollars = lot_size x
\* stopPips x pipValuePerLot rounded to 2 decimals; equity 10000 and a stop
\* of 50 pips give 100.00 and 2.00.
RiskFormulasRounded ==
    riskCall.done =>
        LET riskDollars == RMul(riskCall.calc.equity, RISK_PER_TRADE)
        IN  /\ riskCall.report.raised <=> riskCall.calc.equity = RInt(0)
            /\ ~ riskCall.report.raised =>
                /\ IsRounded2(riskCall.report.output.risk_per_trade_dollars,
                              riskDollars)
                /\ \A row \in RiskRows :
                      /\ IsRounded2(row.lot_size,
                                    RDiv(riskDollars,
                                         RMul(row.stop_pips,
                                              pip_value_per_lot)))
                      /\ IsRounded2(row.risk_dollars,
                                    RMul(RMul(row.lot_size, row.stop_pips),
                                         pip_value_per_lot))
                /\ RiskScenario

-----------------------------------------------------------------------------
(* agents/momentum_reader.py: MomentumReader                                *)

\* self.fast_period
MOMENTUM_FAST_PERIOD == 5

\* self.slow_period
MOMENTUM_SLOW_PERIOD == 20

\* self.acceleration_threshold
MOMENTUM_ACCELERATION_THRESHOLD == Rat(1, 2)

\* prices[-period:], the whole list when period = 0
recent_prices_of(ps, period) ==
    IF period = 0 THEN ps ELSE SubSeq(ps, Len(ps) - period + 1, Len(ps))

\* calculate_rate_of_change(prices, period)
calculate_rate_of_change(ps, period, tie_up) ==
    IF Len(ps) <= period THEN RInt(0)
    ELSE LET current_price == ps[Len(ps)]
             past_price == ps[Len(ps) - period]
         IN  IF past_price.n = 0 THEN RInt(0)
             ELSE round(RMul(RDiv(RSub(current_price, past_price), past_price),
                             RInt(100)), 4, tie_up)

RECURSIVE SumFromTo(_, _, _)
\* ps[lo] + ... + ps[hi], the sum of the lower half plus that of the upper
SumFromTo(ps, lo, hi) ==
    IF lo > hi THEN RInt(0)
    ELSE IF lo = hi THEN ps[lo]
    ELSE RAdd(SumFromTo(ps, lo, (lo + hi) \div 2),
              SumFromTo(ps, (lo + hi) \div 2 + 1, hi))

\* sum of the first n prices of the list
SumPrices(ps, n) == SumFromTo(ps, 1, n)

RECURSIVE SumIndexed(_, _)
\* sum(i * p for i, p in enumerate(recent_prices)) over the first n prices
SumIndexed(ps, n) ==
    IF n = 0 THEN RInt(0)
    ELSE RAdd(SumIndexed(ps, n - 1), RMul(RInt(n - 1), ps[n]))

RECURSIVE SumSquares(_)
\* sum(i * i for i in range(n))
SumSquares(n) == IF n = 0 THEN 0 ELSE (n - 1) * (n - 1) + SumSquares(n - 1)

\* calculate_momentum_slope(prices, period)
calculate_momentum_slope(ps, period, tie_up) ==
    IF Len(ps) < period THEN RInt(0)
    ELSE LET recent_prices == recent_prices_of(ps, period)
             n == Len(recent_prices)
             sum_x == (n * (n - 1)) \div 2
             sum_y == SumPrices(recent_prices, n)
             sum_xy == SumIndexed(recent_prices, n)
             sum_x2 == SumSquares(n)
             denominator == n * sum_x2 - sum_x * sum_x
         IN  IF denominator = 0 THEN RInt(0)
             ELSE round(RDiv(RSub(RMul(RInt(n), sum_xy),
                                  RMul(RInt(sum_x), sum_y)),
                             RInt(denominator)), 4, tie_up)

\* calculate_acceleration(prices, fast_period, slow_period), periods >= 1
calculate_acceleration(ps, fast_period, slow_period, ties_up) ==
    LET fast_velocity ==
            calculate_velocity(ps, fast_period, "velocity" \in ties_up).value
        slow_velocity ==
            calculate_velocity(ps, slow_period, "velocity" \in ties_up).value
    IN  round(RSub(fast_velocity, slow_velocity), 4, "acceleration" \in ties_up)

\* normalize_value(value, baseline)
normalize_value(value, baseline, tie_up) ==
    IF baseline.n = 0 THEN RInt(0)
    ELSE round(RMul(RDiv(value, baseline), RInt(100)), 4, tie_up)

\* _determine_state as it would be with the direction read off the fast rate
\* of change instead of the velocity.
determine_state_ByRoc(accel_threshold, fast_roc, slow_roc, acceleration, velocity) ==
    LET velocity_threshold == Rat(5, 100)
        going_up == fast_roc.n > 0
        going_down == fast_roc.n < 0
        accelerating == RLt(accel_threshold, acceleration)
        decelerating_accel == RLt(acceleration, RSub(RInt(0), accel_threshold))
    IN  IF /\ RLt(RAbs(velocity), velocity_threshold)
           /\ RLt(RAbs(acceleration), accel_threshold)
        THEN "NEUTRAL"
        ELSE IF going_up
        THEN IF accelerating THEN "ACCELERATING_LONG"
             ELSE IF decelerating_accel THEN "DECELERATING"
             ELSE "NEUTRAL"
        ELSE IF going_down
        THEN IF decelerating_accel THEN "ACCELERATING_SHORT"
             ELSE IF accelerating THEN "DECELERATING"
             ELSE "NEUTRAL"
        ELSE "NEUTRAL"

\* MomentumReader._determine_state of a reader whose acceleration_threshold
\* is accel_threshold
determine_state(accel_threshold, fast_roc, slow_roc, acceleration, velocity) ==
    LET velocity_threshold == Rat(5, 100)
        going_up == velocity.n > 0
        going_down == velocity.n < 0
        accelerating == RLt(accel_threshold, acceleration)
        decelerating_accel == RLt(acceleration, RSub(RInt(0), accel_threshold))
    IN  IF /\ RLt(RAbs(velocity), velocity_threshold)
           /\ RLt(RAbs(acceleration), accel_threshold)
        THEN "NEUTRAL"
        ELSE IF going_up
        THEN IF accelerating THEN "ACCELERATING_LONG"
             ELSE IF decelerating_accel THEN "DECELERATING"
             ELSE "NEUTRAL"
        ELSE IF going_down
        THEN IF decelerating_accel THEN "ACCELERATING_SHORT"
             ELSE IF accelerating THEN "DECELERATING"
             ELSE "NEUTRAL"
        ELSE "NEUTRAL"

\* The state of the closes: the four indicators handed to _determine_state, as
\* read_momentum, _get_prior_state and _estimate_state_duration compute them.
state_of(closes, ties_up) ==
    determine_state(
        MOMENTUM_ACCELERATION_THRESHOLD,
        calculate_rate_of_change(closes, MOMENTUM_FAST_PERIOD, "roc" \in ties_up),
        calculate_rate_of_change(closes, MOMENTUM_SLOW_PERIOD, "roc" \in ties_up),
        calculate_acceleration(closes, MOMENTUM_FAST_PERIOD,
                               MOMENTUM_SLOW_PERIOD, ties_up),
        calculate_velocity(closes, MOMENTUM_FAST_PERIOD,
                           "velocity" \in ties_up).value)

\* MomentumReader._get_prior_state(closes)
get_prior_state(closes, ties_up) ==
    IF Len(closes) < MOMENTUM_SLOW_PERIOD + 10 THEN "UNKNOWN"
    ELSE state_of(SubSeq(closes, 1, Len(closes) - 5), ties_up)

\* The passes i of the loop of _estimate_state_duration that break it: the
\* subset closes[:-i] is too short, or its state is not current_state.
duration_breaks(closes, current_state, ties_up) ==
    {i \in 1..(Min2(50, Len(closes) - MOMENTUM_SLOW_PERIOD) - 1) :
        \/ Len(closes) - i < MOMENTUM_SLOW_PERIOD + 5
        \/ state_of(SubSeq(closes, 1, Len(closes) - i), ties_up) # current_state}

\* duration when the loop ends: every pass before the first that breaks
\* counts one, and so does every pass when none breaks.
duration_loop(closes, breaks) ==
    IF breaks = {}
    THEN Max2(Min2(50, Len(closes) - MOMENTUM_SLOW_PERIOD) - 1, 0)
    ELSE (CHOOSE i \in breaks : \A k \in breaks : i <= k) - 1

\* MomentumReader._estimate_state_duration(closes, current_state)
estimate_state_duration(closes, current_state, ties_up) ==
    IF Len(closes) < MOMENTUM_SLOW_PERIOD + 5 THEN 1
    ELSE Max2(duration_loop(closes,
                            duration_breaks(closes, current_state, ties_up)),
              1)

\* MomentumReader._create_report
momentum_create_report(state, status, candle_count, fast_roc, slow_roc, velocity, normalized_velocity, acceleration, slope, prior_state, state_duration) ==
    [status |-> status,
     output |-> [state |-> state, prior_state |-> prior_state,
                 state_duration_candles |-> state_duration,
                 velocity_normalized |-> normalized_velocity],
     internals |-> [fast_roc |-> fast_roc, slow_roc |-> slow_roc,
                    velocity |-> velocity, acceleration |-> acceleration,
                    slope |-> slope, candles_analyzed |-> candle_count,
                    fast_period |-> MOMENTUM_FAST_PERIOD,
                    slow_period |-> MOMENTUM_SLOW_PERIOD]]

\* The report read_momentum builds once the closes are extracted.
momentum_report_of(closes, ties_up) ==
    LET state == state_of(closes, ties_up)
        fast_velocity ==
            calculate_velocity(closes, MOMENTUM_FAST_PERIOD,
                               "velocity" \in ties_up).value
        avg_price ==
            RDiv(SumPrices(recent_prices_of(closes, MOMENTUM_SLOW_PERIOD),
                           MOMENTUM_SLOW_PERIOD),
                 RInt(MOMENTUM_SLOW_PERIOD))
    IN  momentum_create_report(
            state, "ANALYSIS_COMPLETE", Len(closes),
            calculate_rate_of_change(closes, MOMENTUM_FAST_PERIOD,
                                     "roc" \in ties_up),
            calculate_rate_of_change(closes, MOMENTUM_SLOW_PERIOD,
                                     "roc" \in ties_up),
            fast_velocity,
            normalize_value(fast_velocity, avg_price, "normalized" \in ties_up),
            calculate_acceleration(closes, MOMENTUM_FAST_PERIOD,
                                   MOMENTUM_SLOW_PERIOD, ties_up),
            calculate_momentum_slope(closes, MOMENTUM_FAST_PERIOD,
                                     "slope" \in ties_up),
            get_prior_state(closes, ties_up),
            estimate_state_duration(closes, state, ties_up))

\* MomentumReader.read_momentum(candles), closes = [c['close'] for c in
\* candles]. ties_up names the roundings that round a tie up.
read_momentum(closes, ties_up) ==
    IF Len(closes) < MOMENTUM_SLOW_PERIOD + 5
    THEN momentum_create_report("NEUTRAL", "INSUFFICIENT_DATA", Len(closes),
                                RInt(0), RInt(0), RInt(0), RInt(0), RInt(0),
                                RInt(0), "UNKNOWN", 0)
    ELSE momentum_report_of(closes, ties_up)

\* The roundings of the momentum helpers.
MomentumRoundings == {"roc", "velocity", "acceleration", "slope", "normalized"}

-----------------------------------------------------------------------------
(* RegimeClassifier and MomentumReader on a steady linear rise.             *)

\* A tick, in dollars: the rise of the closes per bar. The candles hold whole
\* ticks, as the regime classifier's candles do, and the closes handed to the
\* momentum reader are dollars. A tick is a power of two, so the code's true
\* ranges and directional movements are the model's times the tick, and the
\* smoothed sums, their quotients and the ADX are the model's.
Tick == Rat(1, 2)

\* The close of the first bar, in dollars, and the length of the history.
TrendStart == 2600

TrendBars == 100

\* The longest upper or lower shadow of a bar, in ticks.
MaxShadow == 8

\* A history of n bars whose closes rise by one tick per bar from TrendStart,
\* each bar reaching up ticks above and down ticks below its close.
TrendCandles(n, up, down) ==
    [i \in 1..n |->
        LET close == int(RDiv(RInt(TrendStart), Tick)) + (i - 1)
        IN  Candle(close, close + up, close - down, close)]

\* [c['close'] for c in candles], in dollars
ClosesOf(cs) == [i \in 1..Len(cs) |-> RMul(RInt(cs[i].close), Tick)]

InitTrend ==
    /\ reports = NoReports
    /\ dash = NoDash
    /\ cli = NoCli
    /\ candles \in {TrendCandles(TrendBars, up, down) :
                       up \in 0..MaxShadow, down \in 0..MaxShadow}
    /\ regimeReport = NoRegimeReport
    /\ adxOut = NoAdx
    /\ prices = <<>>
    /\ velocityOut = NoVelocity
    /\ structureReport = NoStructureReport
    /\ NoCalls

\* momentum_agent.read_momentum(candles)
ReadMomentum ==
    /\ ~ momentumCall.done
    /\ \E ties_up \in SUBSET MomentumRoundings :
          momentumCall' = [done |-> TRUE, closes |-> ClosesOf(candles),
                           report |-> read_momentum(ClosesOf(candles), ties_up)]
    /\ UNCHANGED <<cycleVars, clusterCall, sessionCall, riskCall, volatilityCall, cycleRun, baselineCall, recencyCall>>

NextTrend == Classify \/ ReadMomentum

SpecTrend == InitTrend /\ [][NextTrend]_vars

\* The high-low width and the true range of the bars of the history, dollars.
BarWidth == RMul(RInt(candles[2].high - candles[2].low), Tick)

BarTrueRange == RMul(RInt(TrueRange(candles, 1)), Tick)

\* What read_momentum reports on the rise, as the claim states it.
SteadyMomentum ==
    momentumCall.done =>
        /\ momentumCall.report.status = "ANALYSIS_COMPLETE"
        /\ momentumCall.report.internals.velocity.n > 0
        /\ RLt(RAbs(momentumCall.report.internals.acceleration),
               MOMENTUM_ACCELERATION_THRESHOLD)
        /\ momentumCall.report.output.state = "NEUTRAL"

\* C14, as stated: on 100 candles whose closes rise by 0.5 per bar from
\* 2600.00, classify reports TREND_UP with plus_di > minus_di whatever the
\* high-low width of the candles, and read_momentum reports velocity > 0,
\* |acceleration| below the threshold 0.5 and state NEUTRAL.
C14_LinearRise ==
    /\ regimeReport.done =>
          /\ regimeReport.output.regime = "TREND_UP"
          /\ RLt(regimeReport.output.internals.minus_di,
                 regimeReport.output.internals.plus_di)
    /\ SteadyMomentum

\* What the code does on the rise: classify reports plus_di > minus_di and an
\* ADX of at least 50, and the regime is TREND_UP when the true range of the
\* bars (their high-low width, or the reach of the high above the previous
\* close when that is larger) is at most 5.00 and CHAOS when it is larger;
\* read_momentum reports as stated.
LinearRiseByRange ==
    /\ regimeReport.done =>
          /\ regimeReport.status = "OK"
          /\ RLt(regimeReport.output.internals.minus_di,
                 regimeReport.output.internals.plus_di)
          /\ RLe(RInt(50), regimeReport.output.internals.adx)
          /\ regimeReport.output.regime =
                IF RLe(BarTrueRange, RInt(5)) THEN "TREND_UP" ELSE "CHAOS"
    /\ SteadyMomentum

-----------------------------------------------------------------------------
(* agents/volatility_assessor.py                                            *)

\* self.pip_size
volatility_pip_size == fl(Rat(1, 100))

\* self.low_threshold, self.normal_threshold, self.elevated_threshold
low_threshold == 100

normal_threshold == 300

elevated_threshold == 500

\* self.spread_acceptable, self.spread_wide
spread_acceptable == Rat(1, 2)

spread_wide == RInt(1)

\* The spread assess assumes when it is handed none.
default_spread == fl(Rat(3, 10))

RECURSIVE atr_loop(_, _, _, _, _)
\* The smoothing loop of calculate_atr over tr_list[lo..hi], in order, from
\* the atr so far: the entries up to the middle, then the rest.
atr_loop(tr_list, period, lo, hi, atr) ==
    IF lo > hi THEN atr
    ELSE IF lo = hi
    THEN FDiv(FAdd(FMul(atr, RInt(period - 1)), RInt(tr_list[lo])),
              RInt(period))
    ELSE TheOne({atr_loop(tr_list, period, (lo + hi) \div 2 + 1, hi, lower) :
                    lower \in {atr_loop(tr_list, period, lo,
                                        (lo + hi) \div 2, atr)}})

\* calculate_atr from tr_list on
atr_of_list(tr_list, period) ==
    IF Len(tr_list) < period
    THEN IF Len(tr_list) > 0
         THEN FDiv(RInt(SumTo(tr_list, Len(tr_list))), RInt(Len(tr_list)))
         ELSE RInt(0)
    ELSE atr_loop(tr_list, period, period + 1, Len(tr_list),
                  FDiv(RInt(SumTo(tr_list, period)), RInt(period)))

\* VolatilityAssessor.calculate_atr(candles, period), period >= 1
calculate_atr(cs, period) ==
    IF Len(cs) < period + 1 THEN RInt(0)
    ELSE atr_of_list([i \in 1..(Len(cs) - 1) |-> TrueRange(cs, i)], period)

\* VolatilityAssessor.calculate_baseline_atr(candles, period, lookback)
calculate_baseline_atr(cs, period, baseline_lookback) ==
    IF Len(cs) < baseline_lookback THEN calculate_atr(cs, period)
    ELSE IF Len(cs) > baseline_lookback * 2
    THEN calculate_atr(SubSeq(cs, 1, Len(cs) - baseline_lookback), period)
    ELSE calculate_atr(SubSeq(cs, 1, baseline_lookback), period)

\* The tier assess derives from the ATR in pips alone.
tier_of_pips(atr_current_pips) ==
    IF RLt(atr_current_pips, RInt(low_threshold)) THEN "LOW"
    ELSE IF RLt(atr_current_pips, RInt(normal_threshold)) THEN "NORMAL"
    ELSE IF RLt(atr_current_pips, RInt(elevated_threshold)) THEN "ELEVATED"
    ELSE "EXTREME"

\* The check against the baseline as it would be without the upgrade to
\* EXTREME at three times the baseline.
tier_of_ratio_NoExtreme(volatility_state, atr_current, atr_baseline) ==
    IF atr_baseline.n > 0
    THEN IF /\ RLt(RInt(2), FDiv(atr_current, atr_baseline))
            /\ volatility_state # "EXTREME"
         THEN "ELEVATED"
         ELSE volatility_state
    ELSE volatility_state

\* The tier after the check against the baseline.
tier_of_ratio(volatility_state, atr_current, atr_baseline) ==
    IF atr_baseline.n > 0
    THEN IF RLt(RInt(3), FDiv(atr_current, atr_baseline)) THEN "EXTREME"
         ELSE IF /\ RLt(RInt(2), FDiv(atr_current, atr_baseline))
                 /\ volatility_state # "EXTREME"
         THEN "ELEVATED"
         ELSE volatility_state
    ELSE volatility_state

\* spread_status of assess
spread_status_of(spread_pips) ==
    IF RLe(spread_pips, spread_acceptable) THEN "ACCEPTABLE"
    ELSE IF RLe(spread_pips, spread_wide) THEN "WIDE"
    ELSE "EXTREME"

\* The report assess returns for fewer than two candles.
assess_error_report ==
    [status |-> "ERROR",
     output |-> [volatility_state |-> "UNKNOWN", atr_current_pips |-> RInt(0),
                 atr_baseline_pips |-> RInt(0), spread_pips |-> RInt(0),
                 spread_status |-> "UNKNOWN"]]

\* The report assess builds from the two ATRs and the spread.
assess_ok_report(atr_current, atr_baseline, spread_pips, tie_up) ==
    [status |-> "OK",
     output |->
        [volatility_state |->
            tier_of_ratio(tier_of_pips(FDiv(atr_current, volatility_pip_size)),
                          atr_current, atr_baseline),
         atr_current_pips |->
            round(FDiv(atr_current, volatility_pip_size), 2, tie_up),
         atr_baseline_pips |->
            round(FDiv(atr_baseline, volatility_pip_size), 2, tie_up),
         atr_ratio |->
            IF atr_baseline.n > 0
            THEN round(FDiv(atr_current, atr_baseline), 2, tie_up)
            ELSE RInt(1),
         spread_pips |-> round(spread_pips, 2, tie_up),
         spread_status |-> spread_status_of(spread_pips),
         internals |->
            [atr_raw |-> round(atr_current, 4, tie_up),
             atr_baseline_raw |-> round(atr_baseline, 4, tie_up),
             period |-> 14]]]

\* VolatilityAssessor.assess(candles, spread), spread None or a float
assess(cs, spread, tie_up) ==
    IF Len(cs) = 0 \/ Len(cs) < 2 THEN assess_error_report
    ELSE TheOne({assess_ok_report(atr_current, atr_baseline,
                                  IF spread # None THEN spread
                                  ELSE default_spread, tie_up) :
                    atr_current \in {calculate_atr(cs, 14)},
                    atr_baseline \in {calculate_baseline_atr(cs, 14, 50)}})

-----------------------------------------------------------------------------
(* VolatilityAssessor and RegimeClassifier on quiet bars followed by wild   *)
(* bars.                                                                    *)

\* The most wild bars at the end of a history.
MaxWild == 6

\* The numbers of quiet bars a history starts with.
QuietCounts == {0, 1, 2, 13, 14, 15, 28, 29, 50}

\* The high-low widths of the quiet and of the wild bars, in dollars.
QuietWidths == {0, 1, 2}

WildWidths == {3, 5, 8}

\* A bar that closes at its low of 10 dollars and is width dollars high.
Bar(width) == Candle(10, 10 + width, 10, 10)

\* quiet bars of one width followed by wild bars of another
VolatilityHistory(quiet, quiet_width, wild, wild_width) ==
    [i \in 1..(quiet + wild) |->
        IF i <= quiet THEN Bar(quiet_width) ELSE Bar(wild_width)]

VolatilityHistories ==
    {VolatilityHistory(quiet, quiet_width, wild, wild_width) :
        quiet \in QuietCounts, quiet_width \in QuietWidths,
        wild \in 0..MaxWild, wild_width \in WildWidths}

\* The spreads handed to assess: none, and spreads around the two thresholds.
Spreads ==
    {None, fl(Rat(3, 10)), Rat(1, 2), fl(Rat(51, 100)), RInt(1), Rat(3, 2)}

InitVolatility ==
    /\ reports = NoReports
    /\ dash = NoDash
    /\ cli = NoCli
    /\ candles \in VolatilityHistories
    /\ regimeReport = NoRegimeReport
    /\ adxOut = NoAdx
    /\ prices = <<>>
    /\ velocityOut = NoVelocity
    /\ structureReport = NoStructureReport
    /\ NoCalls

\* volatility_agent.assess(candles, spread)
Assess ==
    /\ ~ volatilityCall.done
    /\ \E spread \in Spreads, tie_up \in BOOLEAN :
          volatilityCall' = [done |-> TRUE, spread |-> spread,
                             report |-> assess(candles, spread, tie_up)]
    /\ UNCHANGED <<cycleVars, clusterCall, sessionCall, riskCall, momentumCall, cycleRun, baselineCall, recencyCall>>

NextVolatility == Classify \/ Assess

SpecVolatility == InitVolatility /\ [][NextVolatility]_vars

\* C15: with fewer than 2 * lookback + 1 = 29 candles classify, and with
\* fewer than 14 + 1 = 15 candles assess, returns a status other than OK with
\* the regime or the volatility state UNKNOWN, and no tier derived from a
\* zero or partial value.
C15_FullLookbackOrError ==
    /\ regimeReport.done /\ Len(candles) < 2 * lookback + 1 =>
          /\ regimeReport.status # "OK"
          /\ regimeReport.output.regime = "UNKNOWN"
    /\ volatilityCall.done /\ Len(candles) < 14 + 1 =>
          /\ volatilityCall.report.status # "OK"
          /\ volatilityCall.report.output.volatility_state = "UNKNOWN"

\* What the code does on a short history: classify returns ERROR below
\* lookback + 1 = 15 candles and OK from there on; assess returns ERROR below
\* 2 candles and, from 2 to 14 candles, OK with the tier LOW of a zero ATR.
ShortHistoryReports ==
    /\ regimeReport.done =>
          /\ regimeReport.status = "ERROR" <=> Len(candles) < lookback + 1
          /\ regimeReport.status = "OK" <=> Len(candles) >= lookback + 1
          /\ regimeReport.status = "OK" =>
                regimeReport.output.regime # "UNKNOWN"
    /\ volatilityCall.done =>
          /\ volatilityCall.report.status = "ERROR" <=> Len(candles) < 2
          /\ volatilityCall.report.status = "OK" <=> Len(candles) >= 2
          /\ Len(candles) >= 2 /\ Len(candles) < 14 + 1 =>
                /\ volatilityCall.report.output.volatility_state = "LOW"
                /\ volatilityCall.report.output.atr_current_pips = RInt(0)

-----------------------------------------------------------------------------
(* Faults of the reader entry points.                                        *)

\* C16: RiskCalculator.calculate returns a report for every well-typed
\* account, a zero account equity included: no arithmetic fault propagates
\* out of the entry point.
C16_NoReaderRaises ==
    riskCall.done => ~ riskCall.report.raised

\* What the code does: calculate raises exactly on an account whose equity is
\* zero, and returns CALCULATION_COMPLETE on every other account.
RaisesOnZeroEquity ==
    riskCall.done =>
        /\ riskCall.report.raised <=> riskCall.calc.equity = RInt(0)
        /\ ~ riskCall.report.raised =>
              riskCall.report.status = "CALCULATION_COMPLETE"

-----------------------------------------------------------------------------
(* agents/recency_check.py                                                  *)

\* count_tick_directions(ticks): (up_count, down_count, unchanged_count)
count_tick_directions(ticks) ==
    IF Len(ticks) < 2 THEN [up |-> 0, down |-> 0, unchanged |-> 0]
    ELSE [up |-> Cardinality({i \in 2..Len(ticks) :
                                 RLt(ticks[i - 1].mid, ticks[i].mid)}),
          down |-> Cardinality({i \in 2..Len(ticks) :
                                   RLt(ticks[i].mid, ticks[i - 1].mid)}),
          unchanged |-> Cardinality({i \in 2..Len(ticks) :
                                        ticks[i].mid = ticks[i - 1].mid})]

\* calculate_net_movement(ticks, pip_size)
calculate_net_movement(ticks, pip_size, tie_up) ==
    IF Len(ticks) < 2 THEN RInt(0)
    ELSE IF pip_size = RInt(0) THEN RInt(0)
    ELSE round(FDiv(FSub(ticks[Len(ticks)].mid, ticks[1].mid), pip_size), 1,
               tie_up)

\* calculate_velocity_trend(ticks, pip_size): the movement of each half of
\* the window is the distance between its first and its last tick.
calculate_velocity_trend(ticks, pip_size) ==
    IF Len(ticks) < 10 THEN "STEADY"
    ELSE LET half == Len(ticks) \div 2
             first_movement ==
                 IF half >= 2
                 THEN RAbs(FSub(ticks[half].mid, ticks[1].mid))
                 ELSE RInt(0)
             second_movement ==
                 IF Len(ticks) - half >= 2
                 THEN RAbs(FSub(ticks[Len(ticks)].mid, ticks[half + 1].mid))
                 ELSE RInt(0)
             ratio == FDiv(second_movement, first_movement)
         IN  IF first_movement = RInt(0)
             THEN IF RLt(RInt(0), second_movement) THEN "INCREASING"
                  ELSE "STEADY"
             ELSE IF RLt(fl(Rat(13, 10)), ratio) THEN "INCREASING"
             ELSE IF RLt(ratio, fl(Rat(7, 10))) THEN "DECAYING"
             ELSE "STEADY"

\* find_last_impulse: default_result
impulse_default_result ==
    [direction |-> "NONE", strength |-> "NONE", ticks_ago |-> 0,
     size_pips |-> RInt(0)]

\* find_last_impulse: the best_impulse of the sequence that started at
\* impulse_start_idx and ended at the tick end_index, ticks_ago ticks ago.
\* Ticks are counted from 1.
impulse_of(ticks, pip_size, st, end_index, ticks_ago, tie_up) ==
    LET start_price == ticks[st.impulse_start_idx].mid
        end_price == ticks[end_index].mid
        size_pips == IF RLt(RInt(0), pip_size)
                     THEN FDiv(RAbs(FSub(end_price, start_price)), pip_size)
                     ELSE RInt(0)
    IN  [direction |-> st.current_direction,
         ticks_ago |-> ticks_ago,
         size_pips |-> round(size_pips, 2, tie_up),
         consecutive |-> st.consecutive_count]

\* find_last_impulse: one pass of the loop, for the tick at index i. st holds
\* best_impulse, current_direction ("" for None), consecutive_count and
\* impulse_start_idx.
impulse_loop_body(ticks, pip_size, min_consecutive, i, st, tie_up) ==
    LET current == ticks[i].mid
        previous == ticks[i - 1].mid
        direction == IF RLt(previous, current) THEN "UP"
                     ELSE IF RLt(current, previous) THEN "DOWN"
                     ELSE ""
    IN  IF direction = "" THEN st
        ELSE IF direction = st.current_direction
        THEN [st EXCEPT !.consecutive_count = @ + 1]
        ELSE [best_impulse |->
                  IF /\ st.consecutive_count >= min_consecutive
                     /\ st.current_direction # ""
                  THEN impulse_of(ticks, pip_size, st, i - 1,
                                  Len(ticks) - (i - 1), tie_up)
                  ELSE st.best_impulse,
              current_direction |-> direction,
              consecutive_count |-> 1,
              impulse_start_idx |-> i - 1]

RECURSIVE impulse_loop(_, _, _, _, _, _, _)
\* The loop of find_last_impulse over the ticks lo..hi, in order: the ticks
\* up to the middle, then the rest.
impulse_loop(ticks, pip_size, min_consecutive, lo, hi, st, tie_up) ==
    IF lo > hi THEN st
    ELSE IF lo = hi
    THEN impulse_loop_body(ticks, pip_size, min_consecutive, lo, st, tie_up)
    ELSE TheOne({impulse_loop(ticks, pip_size, min_consecutive,
                              (lo + hi) \div 2 + 1, hi, lower, tie_up) :
                    lower \in {impulse_loop(ticks, pip_size, min_consecutive,
                                            lo, (lo + hi) \div 2, st,
                                            tie_up)}})

\* The strength of an impulse of size_pips.
impulse_strength(size_pips) ==
    IF RLt(RInt(1), size_pips) THEN "STRONG"
    ELSE IF RLt(Rat(1, 2), size_pips) THEN "MODERATE"
    ELSE "WEAK"

\* find_last_impulse(ticks, pip_size, min_consecutive)
find_last_impulse(ticks, pip_size, min_consecutive, tie_up) ==
    IF Len(ticks) < min_consecutive + 1 THEN impulse_default_result
    ELSE LET st == impulse_loop(ticks, pip_size, min_consecutive, 2,
                                Len(ticks),
                                [best_impulse |-> None,
                                 current_direction |-> "",
                                 consecutive_count |-> 0,
                                 impulse_start_idx |-> 1], tie_up)
             best_impulse ==
                 IF /\ st.consecutive_count >= min_consecutive
                    /\ st.current_direction # ""
                 THEN impulse_of(ticks, pip_size, st, Len(ticks), 0, tie_up)
                 ELSE st.best_impulse
         IN  IF best_impulse = None THEN impulse_default_result
             ELSE [direction |-> best_impulse.direction,
                   strength |-> impulse_strength(best_impulse.size_pips),
                   ticks_ago |-> best_impulse.ticks_ago,
                   size_pips |-> best_impulse.size_pips]

\* The tick bias check derives from the counts. For the counts of a window
\* of 50 ticks the float product count * 1.3 compares with a whole number as
\* the exact product does.
tick_bias_of(up_count, down_count) ==
    IF up_count + down_count = 0 THEN "NEUTRAL"
    ELSE IF RLt(RMul(RInt(down_count), Rat(13, 10)), RInt(up_count))
    THEN "BULLISH"
    ELSE IF RLt(RMul(RInt(up_count), Rat(13, 10)), RInt(down_count))
    THEN "BEARISH"
    ELSE "NEUTRAL"

\* RecencyCheck._create_report, as far as the tick directions, the net
\* movement, the velocity trend, the last impulse and the tick bias go; the
\* spread stability, the freshness and the alignment are left out.
recency_create_report(status, tick_count, directions, net_movement_pips, velocity_trend, last_impulse, tick_bias) ==
    [status |-> status,
     output |-> [tick_direction |-> directions,
                 net_movement_pips |-> net_movement_pips,
                 velocity_trend |-> velocity_trend,
                 last_impulse |-> IF last_impulse # None THEN last_impulse
                                  ELSE impulse_default_result,
                 tick_bias |-> tick_bias],
     internals |-> [ticks_analyzed |-> tick_count]]

\* RecencyCheck.check(ticks)
recency_check(ticks, tie_up) ==
    IF Len(ticks) < 5
    THEN recency_create_report("INSUFFICIENT_DATA", Len(ticks),
                               [up |-> 0, down |-> 0, unchanged |-> 0],
                               RInt(0), "STEADY", None, "NEUTRAL")
    ELSE LET directions == count_tick_directions(ticks)
         IN  recency_create_report(
                 "CHECK_COMPLETE", Len(ticks), directions,
                 calculate_net_movement(ticks, PIP_SIZE, tie_up),
                 calculate_velocity_trend(ticks, PIP_SIZE),
                 find_last_impulse(ticks, PIP_SIZE, 3, tie_up),
                 tick_bias_of(directions.up, directions.down))

-----------------------------------------------------------------------------
(* One orchestration cycle, statement by statement: dashboard.py            *)
(* run_all_agents and run_all_agents.py run_all_agents. The candles of a    *)
(* cycle hold their prices in whole dollars. The audit log and the report   *)
(* files the orchestrators write are left out.                              *)

\* The readers, in the order both orchestrators call them.
Readers ==
    <<"regime", "structure", "momentum", "volatility", "session", "risk",
      "recency">>

ReaderSet == {Readers[i] : i \in 1..Len(Readers)}

\* The readers that are handed the candle sequence.
CandleReaders == {"regime", "structure", "momentum", "volatility"}

\* The statements of a cycle, in program order.
CycleOrder == <<"candles", "ticks", "quote">> \o Readers \o <<"synthesis", "done">>

\* The statement that follows statement pc.
step_after(pc) ==
    CycleOrder[1 + CHOOSE i \in 1..(Len(CycleOrder) - 1) : CycleOrder[i] = pc]

\* The candle sequences the provider returns: none, 15 bars and 30 bars.
CycleHistories ==
    {<<>>, VolatilityHistory(13, 1, 2, 3), VolatilityHistory(28, 2, 2, 5),
     VolatilityHistory(29, 0, 1, 8)}

\* get_recent_ticks(count=50): the ticks made of the candles' prices, then
\* copies of the last one up to count. The mids, in quarter dollars.
TickArray(mids, count) ==
    [i \in 1..count |->
        [mid |-> Rat(mids[IF i <= Len(mids) THEN i ELSE Len(mids)], 4)]]

TickMoves ==
    {<<40>>, <<40, 41, 42, 41, 43, 44>>, <<40, 38, 39, 36, 36, 35>>,
     <<40, 41, 40, 41, 40>>}

LiveTicks == {TickArray(mids, 50) : mids \in TickMoves}

\* The candles of a cycle as map_structure reads them, in cents.
CentCandles(cs) ==
    [i \in 1..Len(cs) |->
        Candle(100 * cs[i].open, 100 * cs[i].high, 100 * cs[i].low,
               100 * cs[i].close)]

\* [c['close'] for c in candles] of a cycle
CycleCloses(cs) == [i \in 1..Len(cs) |-> RInt(cs[i].close)]

\* The times of day the session clock reads.
CycleTimes == {<<3, 0>>, <<14, 0>>, <<21, 45>>}

\* SETTINGS['risk']['account_equity'], as shipped and as a user may set it
SettingsEquity == {RInt(10000), RInt(0)}

NoCycle(entry) ==
    [done |-> FALSE, entry |-> entry, pc |-> "candles",
     fetched |-> [candles |-> 0, ticks |-> 0, quote |-> 0],
     snapshot |-> <<>>, ticks |-> <<>>, quote |-> None,
     received |-> [r \in {} |-> None], results |-> [r \in {} |-> None]]

InitCycle ==
    /\ ReadersIdle
    /\ recencyCall = NoCall
    /\ baselineCall = NoCall
    /\ volatilityCall = NoCall
    /\ momentumCall = NoCall
    /\ clusterCall = NoCall
    /\ sessionCall = NoCall
    /\ riskCall = NoCall
    /\ cycleRun \in {NoCycle(entry) : entry \in {"dashboard", "cli"}}

\* The statement at pc runs in the orchestrator entry.
At(entry, pc) ==
    /\ "entry" \in DOMAIN cycleRun
    /\ cycleRun.entry = entry
    /\ cycleRun.pc = pc

\* reader has been handed argument and has returned report.
Returned(reader, argument, report) ==
    [cycleRun EXCEPT !.pc = step_after(reader),
                     !.received = (reader :> argument) @@ @,
                     !.results = (reader :> report) @@ @]

\* The frame of a statement that assigns neither the candles nor a result of
\* the synthesis.
ReaderFrame ==
    UNCHANGED <<reports, dash, cli, candles, regimeReport, adxOut, prices,
                velocityOut, structureReport, clusterCall, sessionCall,
                riskCall, momentumCall, volatilityCall, baselineCall, recencyCall>>

\* dashboard.py line 175: candles = provider.generate_candle_history(...)
DashFetchCandles ==
    /\ At("dashboard", "candles")
    /\ \E cs \in CycleHistories :
          /\ candles' = cs
          /\ cycleRun' = [cycleRun EXCEPT !.pc = step_after("candles"),
                                          !.fetched.candles = @ + 1,
                                          !.snapshot = cs]
    /\ UNCHANGED <<reports, dash, cli, regimeReport, adxOut, prices, velocityOut, structureReport, clusterCall, sessionCall, riskCall, momentumCall, volatilityCall, baselineCall, recencyCall>>

\* dashboard.py line 176: ticks = provider.get_recent_ticks(count=50)
DashFetchTicks ==
    /\ At("dashboard", "ticks")
    /\ \E ts \in LiveTicks :
          cycleRun' = [cycleRun EXCEPT !.pc = step_after("ticks"),
                                       !.fetched.ticks = @ + 1,
                                       !.ticks = ts]
    /\ ReaderFrame

\* dashboard.py line 177: quote = provider.get_current_quote(), whose spread
\* is 0.30 on every path of the provider.
DashFetchQuote ==
    /\ At("dashboard", "quote")
    /\ cycleRun' = [cycleRun EXCEPT !.pc = step_after("quote"),
                                    !.fetched.quote = @ + 1,
                                    !.quote = [spread |-> fl(Rat(3, 10))]]
    /\ ReaderFrame

\* run_all_agents.py line 347: candles = generator.generate_candle_history(...)
CliFetchCandles ==
    /\ At("cli", "candles")
    /\ \E cs \in CycleHistories :
          /\ candles' = cs
          /\ cycleRun' = [cycleRun EXCEPT !.pc = step_after("candles"),
                                          !.fetched.candles = @ + 1,
                                          !.snapshot = cs]
    /\ UNCHANGED <<reports, dash, cli, regimeReport, adxOut, prices, velocityOut, structureReport, clusterCall, sessionCall, riskCall, momentumCall, volatilityCall, baselineCall, recencyCall>>

\* run_all_agents.py lines 351-353: sixty ticks are generated and
\* ticks = generator.get_recent_ticks(50)
CliFetchTicks ==
    /\ At("cli", "ticks")
    /\ \E ts \in LiveTicks \cup {TickArray(<<40, 41>>, 4)} :
          cycleRun' = [cycleRun EXCEPT !.pc = step_after("ticks"),
                                       !.fetched.ticks = @ + 1,
                                       !.ticks = ts]
    /\ ReaderFrame

\* run_all_agents.py lines 357-358: quote = generator.get_current_quote()
CliFetchQuote ==
    /\ At("cli", "quote")
    /\ \E spread \in {fl(Rat(3, 10)), RInt(1)} :
          cycleRun' = [cycleRun EXCEPT !.pc = step_after("quote"),
                                       !.fetched.quote = @ + 1,
                                       !.quote = [spread |-> spread]]
    /\ ReaderFrame

\* regime_agent.classify(candles)
RunRegime ==
    /\ \E entry \in {"dashboard", "cli"} : At(entry, "regime")
    /\ \E tie_up \in BOOLEAN :
          cycleRun' = Returned("regime", candles, classify(candles, tie_up))
    /\ ReaderFrame

\* structure_agent.map_structure(candles)
RunStructure ==
    /\ \E entry \in {"dashboard", "cli"} : At(entry, "structure")
    /\ \E ties_up \in SUBSET TieLevels(CentCandles(candles)) :
          cycleRun' = Returned("structure", candles,
                               map_structure(CentCandles(candles), ties_up))
    /\ ReaderFrame

\* The momentum step of a cycle that fetches the candles again before it
\* reads them.
RunMomentum_Refetch ==
    /\ \E entry \in {"dashboard", "cli"} : At(entry, "momentum")
    /\ \E cs \in CycleHistories, ties_up \in {{}, MomentumRoundings} :
          /\ candles' = cs
          /\ cycleRun' =
                [Returned("momentum", cs,
                          read_momentum(CycleCloses(cs), ties_up))
                    EXCEPT !.fetched.candles = @ + 1]
    /\ UNCHANGED <<reports, dash, cli, regimeReport, adxOut, prices, velocityOut, structureReport, clusterCall, sessionCall, riskCall, momentumCall, volatilityCall, baselineCall, recencyCall>>

\* momentum_agent.read_momentum(candles)
RunMomentum ==
    /\ \E entry \in {"dashboard", "cli"} : At(entry, "momentum")
    /\ \E ties_up \in {{}, MomentumRoundings} :
          cycleRun' = Returned("momentum", candles,
                               read_momentum(CycleCloses(candles), ties_up))
    /\ ReaderFrame

\* volatility_agent.assess(candles, spread) with the spread of the quote
RunVolatility ==
    /\ \E entry \in {"dashboard", "cli"} : At(entry, "volatility")
    /\ \E tie_up \in BOOLEAN :
          cycleRun' = Returned("volatility", candles,
                               assess(candles, cycleRun.quote.spread, tie_up))
    /\ ReaderFrame

\* session_agent.check_session() at the time of day the clock reads
RunSession ==
    /\ \E entry \in {"dashboard", "cli"} : At(entry, "session")
    /\ \E time \in CycleTimes :
          cycleRun' = Returned("session", None,
                               check_session(DefaultSessions, time[1], time[2]))
    /\ ReaderFrame

\* dashboard.py lines 224-230: update_state(equity, -50.0, 0) and calculate();
\* run_all_agents.py lines 398-399: RiskCalculator(10000, -50, 0) and
\* calculate(50). An exception of calculate ends the cycle.
RunRisk ==
    /\ \E entry \in {"dashboard", "cli"} : At(entry, "risk")
    /\ \E equity \in (IF cycleRun.entry = "dashboard" THEN SettingsEquity
                      ELSE {RInt(10000)}),
          ties_up \in {{}, RoundedRiskFields} :
          LET report ==
                  risk_calculate([equity |-> equity, daily_pnl |-> RInt(-50),
                                  open_positions |-> 0],
                                 IF cycleRun.entry = "dashboard" THEN None
                                 ELSE RInt(50),
                                 ties_up)
          IN  cycleRun' =
                  IF report.raised
                  THEN [cycleRun EXCEPT !.pc = "raised", !.done = TRUE]
                  ELSE Returned("risk", None, report)
    /\ ReaderFrame

\* recency_agent.check(ticks)
RunRecency ==
    /\ \E entry \in {"dashboard", "cli"} : At(entry, "recency")
    /\ \E tie_up \in BOOLEAN :
          cycleRun' = Returned("recency", cycleRun.ticks,
                               recency_check(cycleRun.ticks, tie_up))
    /\ ReaderFrame

\* The four reports the synthesis reads.
SynthesisReports ==
    [regime |-> cycleRun.results["regime"],
     momentum |-> cycleRun.results["momentum"],
     volatility |-> cycleRun.results["volatility"],
     session |-> cycleRun.results["session"]]

\* dashboard.py lines 242-266: calculate_bias and check_synthesis_forbidden
\* on the results, and the return of the cycle.
DashSynthesize ==
    /\ At("dashboard", "synthesis")
    /\ reports' = SynthesisReports
    /\ LET rs == SynthesisReports
           bias == dashboard_calculate_bias(rs.regime, rs.momentum,
                                            rs.volatility, rs.session)
           f == dashboard_check_synthesis_forbidden(rs.regime, rs.momentum,
                                                    rs.volatility, rs.session)
       IN  dash' = [done |-> TRUE, bias |-> bias,
                    synthesis_forbidden |-> f.forbidden,
                    forbidden_reasons |-> f.reasons]
    /\ cycleRun' = [cycleRun EXCEPT !.pc = step_after("synthesis"),
                                    !.done = TRUE]
    /\ UNCHANGED <<cli, candles, regimeVars, momentumVars, structureReport, clusterCall, sessionCall, riskCall, momentumCall, volatilityCall, baselineCall, recencyCall>>

\* run_all_agents.py lines 410-427: the four states are read off the reports,
\* then calculate_bias and check_synthesis_forbidden; a missing key raises
\* KeyError and ends the cycle.
CliSynthesize ==
    /\ At("cli", "synthesis")
    /\ reports' = SynthesisReports
    /\ LET rs == SynthesisReports
       IN  IF ~ ( /\ HasKey(rs.regime, "regime")
                  /\ HasKey(rs.momentum, "state")
                  /\ HasKey(rs.volatility, "state")
                  /\ HasKey(rs.session, "active_session") )
           THEN /\ cli' = [NoCli EXCEPT !.done = TRUE, !.raised = TRUE]
                /\ cycleRun' = [cycleRun EXCEPT !.pc = "raised", !.done = TRUE]
           ELSE LET bias == cli_calculate_bias(rs.regime.output.regime,
                                               rs.momentum.output.state,
                                               rs.volatility.output.state,
                                               rs.session.output.active_session)
                    f == cli_check_synthesis_forbidden(rs)
                IN  /\ cli' = [done |-> TRUE, raised |-> f.raised,
                               bias |-> IF f.raised THEN "" ELSE bias,
                               forbidden |-> f.forbidden, reason |-> f.reason]
                    /\ cycleRun' =
                           [cycleRun EXCEPT
                               !.pc = IF f.raised THEN "raised"
                                      ELSE step_after("synthesis"),
                               !.done = TRUE]
    /\ UNCHANGED <<dash, candles, regimeVars, momentumVars, structureReport, clusterCall, sessionCall, riskCall, momentumCall, volatilityCall, baselineCall, recencyCall>>

NextCycle ==
    \/ DashFetchCandles \/ DashFetchTicks \/ DashFetchQuote
    \/ CliFetchCandles \/ CliFetchTicks \/ CliFetchQuote
    \/ RunRegime \/ RunStructure \/ RunMomentum \/ RunVolatility
    \/ RunSession \/ RunRisk \/ RunRecency
    \/ DashSynthesize \/ CliSynthesize

SpecCycle == InitCycle /\ [][NextCycle]_vars

\* The readers that have returned in the cycle.
ReturnedReaders == DOMAIN cycleRun.results

\* The synthesis of the cycle has run.
SynthesisRan == reports # NoReports

\* C17: in a cycle the candles, the ticks and the quote are each obtained
\* once, before any reader runs, and never again; every reader of candles is
\* handed the candle sequence as it was obtained and leaves it as it was,
\* RecencyCheck is handed the ticks, and the synthesis runs only after all
\* seven readers have returned.
C17_SnapshotOnce ==
    /\ \A kind \in {"candles", "ticks", "quote"} :
          /\ cycleRun.fetched[kind] <= 1
          /\ ReturnedReaders # {} \/ cycleRun.pc \in ReaderSet =>
                cycleRun.fetched[kind] = 1
    /\ candles = cycleRun.snapshot
    /\ \A reader \in ReturnedReaders \cap CandleReaders :
          cycleRun.received[reader] = cycleRun.snapshot
    /\ "recency" \in ReturnedReaders =>
          cycleRun.received["recency"] = cycleRun.ticks
    /\ SynthesisRan => ReturnedReaders = ReaderSet

\* A dashboard cycle has run to its end over 30 candles: every reader has
\* returned and the synthesis has reported a bias.
C17_Witness ==
    /\ cycleRun.pc = "done"
    /\ cycleRun.entry = "dashboard"
    /\ Len(candles) = 30
    /\ dash.done
    /\ ReturnedReaders = ReaderSet

-----------------------------------------------------------------------------
(* RegimeClassifier.classify over histories of rising, falling and level   *)
(* bars.                                                                    *)

\* The mid price of bar i of a history of three phases, each a direction
\* (1 rising, -1 falling, 0 level) and a number of bars, from 40 dollars.
PhaseLevel(phases, i) ==
    LET n1 == phases[1][2]
        n2 == phases[2][2]
        n3 == phases[3][2]
    IN  40 + phases[1][1] * Min2(i, n1)
           + phases[2][1] * Min2(Max2(i - n1, 0), n2)
           + phases[3][1] * Min2(Max2(i - n1 - n2, 0), n3)

\* The history of three phases: every bar reaches one dollar above and one
\* below its mid price, where it opens and closes.
PhaseCandles(phases) ==
    [i \in 1..(phases[1][2] + phases[2][2] + phases[3][2]) |->
        Candle(PhaseLevel(phases, i), PhaseLevel(phases, i) + 1,
               PhaseLevel(phases, i) - 1, PhaseLevel(phases, i))]

\* The orders of the three directions and the lengths of the phases.
PhaseOrders == {<<1, -1, 0>>, <<1, 0, -1>>, <<-1, 1, 0>>, <<0, 1, -1>>}

PhaseLengths == {0, 2, 6, 8, 12, 20}

LastPhaseLengths == {0, 4, 12}

\* The histories of 15 to 44 bars.
PhaseHistories ==
    {h \in {PhaseCandles(<<<<o[1], a>>, <<o[2], b>>, <<o[3], c>>>>) :
               o \in PhaseOrders, a \in PhaseLengths, b \in PhaseLengths,
               c \in LastPhaseLengths} :
        Len(h) >= lookback + 1 /\ Len(h) <= 44}

InitMapping ==
    /\ reports = NoReports
    /\ dash = NoDash
    /\ cli = NoCli
    /\ candles \in PhaseHistories
    /\ regimeReport = NoRegimeReport
    /\ adxOut = NoAdx
    /\ prices = <<>>
    /\ velocityOut = NoVelocity
    /\ structureReport = NoStructureReport
    /\ NoCalls

NextMapping == Classify

SpecMapping == InitMapping /\ [][NextMapping]_vars

\* The regime of (ADX, +DI, -DI) by the four bands of the ADX.
RegimeByBands(adx, plus_di, minus_di) ==
    LET by_di == IF RLt(minus_di, plus_di) THEN "TREND_UP" ELSE "TREND_DOWN"
    IN  IF RLt(adx, RInt(20)) THEN "RANGE"
        ELSE IF RLt(adx, RInt(25))
        THEN IF plus_di = minus_di THEN "RANGE" ELSE by_di
        ELSE IF RLt(adx, RInt(50)) THEN by_di
        ELSE IF RLt(RAbs(FSub(plus_di, minus_di)), RInt(10)) THEN "CHAOS"
        ELSE by_di

\* The DX series classify builds for the candles.
DxSeries == calculate_adx(candles, lookback).dx_list

\* The mean of the last lookback values of the DX series. Where the series
\* has fewer values, the mean is that of the values there are, or their sum
\* over lookback; it is 0 for an empty series.
MeanOfLastDx ==
    LET m == Len(DxSeries)
        total == SumDx(DxSeries, Max2(1, m - lookback + 1), m)
    IN  IF m = 0 THEN {RInt(0)}
        ELSE IF m >= lookback THEN {FDiv(total, RInt(lookback))}
        ELSE {FDiv(total, RInt(lookback)), FDiv(total, RInt(m))}

\* C18: classify reports the regime of the four ADX bands for (ADX, +DI,
\* -DI), where ADX is the mean of the last lookback DX values of the
\* smoothed series and +DI, -DI are the last ones.
C18_RegimeMapping ==
    regimeReport.done /\ regimeReport.status = "OK" /\ Len(DxSeries) > 0 =>
        \E adx \in MeanOfLastDx :
            regimeReport.output.regime =
                RegimeByBands(adx, DxSeries[Len(DxSeries)].plus_di,
                              DxSeries[Len(DxSeries)].minus_di)

\* What the code does: with at least lookback values in the DX series the
\* regime is that of the bands for their mean; with fewer it is that of the
\* bands for the last DX value alone.
RegimeMappingByLength ==
    regimeReport.done /\ regimeReport.status = "OK" /\ Len(DxSeries) > 0 =>
        LET last == DxSeries[Len(DxSeries)]
        IN  regimeReport.output.regime =
                RegimeByBands(
                    IF Len(DxSeries) >= lookback
                    THEN FDiv(SumDx(DxSeries, Len(DxSeries) - lookback + 1,
                                    Len(DxSeries)), RInt(lookback))
                    ELSE last.dx,
                    last.plus_di, last.minus_di)

-----------------------------------------------------------------------------
(* MomentumReader._determine_state over a grid of indicator values.         *)

\* The acceleration thresholds of a reader: the configured one, a smaller
\* and a larger one.
AccelThresholds == {MOMENTUM_ACCELERATION_THRESHOLD, Rat(1, 4), RInt(1)}

\* Velocities, in dollars per candle, around zero and the threshold 0.05.
VelocityGrid == {Rat(v, 100) : v \in {-100, -5, -4, 0, 4, 5, 100}}

\* Accelerations around zero and the thresholds.
AccelerationGrid ==
    {Rat(a, 100) : a \in {-200, -100, -50, -49, -25, 0, 25, 49, 50, 100, 200}}

\* Rates of change, in percent.
RocGrid == {RInt(-1), RInt(0), Rat(3, 2)}

InitState ==
    /\ ReadersIdle
    /\ recencyCall = NoCall
    /\ baselineCall = NoCall
    /\ cycleRun = NoCall
    /\ volatilityCall = NoCall
    /\ clusterCall = NoCall
    /\ sessionCall = NoCall
    /\ riskCall = NoCall
    /\ momentumCall \in
          {[done |-> FALSE, accel_threshold |-> t, fast_roc |-> f,
            slow_roc |-> s, acceleration |-> a, velocity |-> v] :
              t \in AccelThresholds, f \in RocGrid, s \in RocGrid,
              a \in AccelerationGrid, v \in VelocityGrid}

\* self._determine_state(fast_roc, slow_roc, acceleration, velocity)
DetermineState ==
    /\ ~ momentumCall.done
    /\ "velocity" \in DOMAIN momentumCall
    /\ momentumCall' =
          [momentumCall EXCEPT
              !.done = TRUE] @@
          [state |-> determine_state(momentumCall.accel_threshold,
                                     momentumCall.fast_roc,
                                     momentumCall.slow_roc,
                                     momentumCall.acceleration,
                                     momentumCall.velocity)]
    /\ UNCHANGED <<cycleVars, clusterCall, sessionCall, riskCall, volatilityCall, cycleRun, baselineCall, recencyCall>>

NextState == DetermineState

SpecState == InitState /\ [][NextState]_vars

\* The state by velocity and acceleration alone, case by case.
StateByCases(velocity, acceleration, accel_threshold) ==
    LET minus_threshold == RSub(RInt(0), accel_threshold)
    IN  IF /\ RLt(RAbs(velocity), Rat(5, 100))
           /\ RLt(RAbs(acceleration), accel_threshold)
        THEN "NEUTRAL"
        ELSE IF RLt(RInt(0), velocity) /\ RLt(accel_threshold, acceleration)
        THEN "ACCELERATING_LONG"
        ELSE IF \/ RLt(RInt(0), velocity) /\ RLt(acceleration, minus_threshold)
                \/ RLt(velocity, RInt(0)) /\ RLt(accel_threshold, acceleration)
        THEN "DECELERATING"
        ELSE IF RLt(velocity, RInt(0)) /\ RLt(acceleration, minus_threshold)
        THEN "ACCELERATING_SHORT"
        ELSE "NEUTRAL"

\* C19: _determine_state returns, for every velocity, acceleration and pair
\* of rates of change, the state the cases of velocity and acceleration
\* give: it returns a state on every input and the rates of change do not
\* enter it.
C19_StateByVelocityAndAcceleration ==
    momentumCall.done /\ "state" \in DOMAIN momentumCall =>
        momentumCall.state =
            StateByCases(momentumCall.velocity, momentumCall.acceleration,
                         momentumCall.accel_threshold)

\* A rising price whose acceleration equals the threshold has been read as
\* NEUTRAL, with a falling fast rate of change.
C19_Witness ==
    /\ momentumCall.done
    /\ "state" \in DOMAIN momentumCall
    /\ momentumCall.velocity = RInt(1)
    /\ momentumCall.acceleration = momentumCall.accel_threshold
    /\ momentumCall.fast_roc = RInt(-1)
    /\ momentumCall.state = "NEUTRAL"

-----------------------------------------------------------------------------
(* The tiers of assess.                                                     *)

\* The tiers of volatility, from the lowest.
TierRank(tier) ==
    CASE tier = "LOW" -> 1
      [] tier = "NORMAL" -> 2
      [] tier = "ELEVATED" -> 3
      [] tier = "EXTREME" -> 4

\* The tier of an ATR in pips by the absolute thresholds.
AbsoluteTier(pips) ==
    CHOOSE tier \in VolatilityTiers :
        /\ tier = "LOW" <=> RLt(pips, RInt(100))
        /\ tier = "NORMAL" <=> RLe(RInt(100), pips) /\ RLt(pips, RInt(300))
        /\ tier = "ELEVATED" <=> RLe(RInt(300), pips) /\ RLt(pips, RInt(500))
        /\ tier = "EXTREME" <=> RLe(RInt(500), pips)

\* The tiers of a report for the current ATR, the baseline ATR and the
\* spread handed to assess.
TiersAsClaimed(output, atr_current, atr_baseline, spread) ==
    LET absolute == AbsoluteTier(FDiv(atr_current, volatility_pip_size))
        final == output.volatility_state
        spread_pips == IF spread = None THEN default_spread ELSE spread
    IN  /\ TierRank(final) >= TierRank(absolute)
        /\ IF RLt(RInt(0), atr_baseline)
           THEN LET ratio == FDiv(atr_current, atr_baseline)
                IN  /\ RLt(RInt(3), ratio) => final = "EXTREME"
                    /\ RLt(RInt(2), ratio) =>
                          TierRank(final) >= TierRank("ELEVATED")
                    /\ RLe(ratio, RInt(2)) => final = absolute
           ELSE final = absolute
        /\ output.spread_status =
              IF RLe(spread_pips, Rat(1, 2)) THEN "ACCEPTABLE"
              ELSE IF RLe(spread_pips, RInt(1)) THEN "WIDE"
              ELSE "EXTREME"

-----------------------------------------------------------------------------
(* The window of the baseline ATR.                                          *)

\* calculate_baseline_atr's default lookback
baseline_lookback_default == 50

\* The lengths of the histories: around lookback and around 2 * lookback.
BaselineLengths == {15, 49, 50, 51, 60, 99, 100, 101, 110}

\* The wild bars a history ends with.
BaselineWilds == {0, 5}

BaselineHistories ==
    {VolatilityHistory(n - wild, quiet_width, wild, wild_width) :
        n \in BaselineLengths, wild \in BaselineWilds,
        quiet_width \in {1, 2}, wild_width \in {3, 8}}

\* How far from the end of the history the revised candle lies: all within
\* the most recent lookback candles.
RecentOffsets == {0, 1, 25, 49}

\* The history with the candle at index replaced by one that is far wider
\* and closes at its high.
Revised(cs, index) == [cs EXCEPT ![index] = Candle(10, 50, 10, 50)]

InitBaseline ==
    /\ reports = NoReports
    /\ dash = NoDash
    /\ cli = NoCli
    /\ candles \in BaselineHistories
    /\ regimeReport = NoRegimeReport
    /\ adxOut = NoAdx
    /\ prices = <<>>
    /\ velocityOut = NoVelocity
    /\ structureReport = NoStructureReport
    /\ NoCalls

\* self.calculate_baseline_atr(candles), as assess calls it
CalculateBaselineAtr ==
    /\ ~ baselineCall.done
    /\ baselineCall' =
          [done |-> TRUE, revised |-> 0, atr_revised |-> RInt(0),
           atr |-> calculate_baseline_atr(candles, 14,
                                          baseline_lookback_default)]
    /\ UNCHANGED <<cycleVars, clusterCall, sessionCall, riskCall, momentumCall, volatilityCall, cycleRun, recencyCall>>

\* self.calculate_baseline_atr on the same history but for one of its most
\* recent lookback candles
CalculateBaselineAtrRevised ==
    /\ baselineCall.done
    /\ baselineCall.revised = 0
    /\ \E offset \in RecentOffsets :
          /\ Len(candles) - offset >= 1
          /\ baselineCall' =
                [baselineCall EXCEPT
                    !.revised = Len(candles) - offset,
                    !.atr_revised =
                        calculate_baseline_atr(
                            Revised(candles, Len(candles) - offset), 14,
                            baseline_lookback_default)]
    /\ UNCHANGED <<cycleVars, clusterCall, sessionCall, riskCall, momentumCall, volatilityCall, cycleRun, recencyCall>>

NextBaseline == CalculateBaselineAtr \/ CalculateBaselineAtrRevised

SpecBaseline == InitBaseline /\ [][NextBaseline]_vars

\* C21: none of the most recent lookback = 50 candles contributes to the
\* baseline ATR: the baseline of a history is the baseline of the history
\* that differs from it in one of its last 50 candles.
C21_BaselineExcludesRecent ==
    baselineCall.done /\ baselineCall.revised > 0 =>
        baselineCall.atr_revised = baselineCall.atr

\* What the code does: the last 50 candles are left out of the baseline from
\* 2 * lookback = 100 candles on; below, the baseline is taken over the
\* first 50 candles, or over the whole history when it has fewer than 50.
BaselineWindowByLength ==
    baselineCall.done /\ baselineCall.revised > 0 =>
        /\ Len(candles) >= 2 * baseline_lookback_default =>
              baselineCall.atr_revised = baselineCall.atr
        /\ /\ Len(candles) < 2 * baseline_lookback_default
           /\ baselineCall.revised <= baseline_lookback_default
           => baselineCall.atr_revised # baselineCall.atr

-----------------------------------------------------------------------------
(* The boundary flag at every minute of the day.                            *)

MinutesPerDay == 24 * 60

\* The minutes from the opening hour of a window to hour:minute, and from
\* hour:minute to its closing hour, around the clock.
MinutesSinceOpening(hour, minute, window) ==
    (hour * 60 + minute - window.start * 60) % MinutesPerDay

MinutesToClosing(hour, minute, window) ==
    ((window.end * 60 - (hour * 60 + minute) - 1) % MinutesPerDay) + 1

\* The flag the cascade overlap, opening half hour, closing half hour gives.
FlagByCascade(overlap, opening, closing) ==
    IF overlap THEN "OVERLAP_ACTIVE"
    ELSE IF opening THEN "SESSION_OPEN_30MIN"
    ELSE IF closing THEN "SESSION_CLOSE_30MIN"
    ELSE "NONE"

\* The age and the time to close check_session reports are the minutes
\* around the clock to the opening and the closing hour of the active
\* session (in the overlap, New York's opening and London's closing).
AgeAndCloseAroundTheClock ==
    LET w == sessionCall.sessions
        h == sessionCall.hour
        mi == sessionCall.minute
        r == sessionCall.report
        s == r.output.active_session
    IN  s # "OFF_HOURS" =>
            /\ r.internals.session_age_minutes =
                  MinutesSinceOpening(h, mi, w[age_session(s)])
            /\ r.internals.minutes_to_close =
                  MinutesToClosing(h, mi, w[close_session(s)])

\* C22 as stated: the flag follows the cascade on the reported age and time
\* to close alone, at every time of day.
C22_BoundaryFlagAsStated ==
    sessionCall.done =>
        LET r == sessionCall.report
        IN  /\ AgeAndCloseAroundTheClock
            /\ r.output.boundary_flag =
                  FlagByCascade(r.internals.london_active
                                    /\ r.internals.new_york_active,
                                r.internals.session_age_minutes <= 30,
                                r.internals.minutes_to_close <= 30)

\* C22: the flag is OVERLAP_ACTIVE when London and New York are both active;
\* else, while a session is active, SESSION_OPEN_30MIN when its age is at
\* most 30 minutes, else SESSION_CLOSE_30MIN when at most 30 minutes remain;
\* else NONE. Age and time to close are the minutes around the clock to the
\* active session's opening and closing hour.
C22_BoundaryFlag ==
    sessionCall.done =>
        LET r == sessionCall.report
            active == r.output.active_session # "OFF_HOURS"
        IN  /\ AgeAndCloseAroundTheClock
            /\ r.output.boundary_flag =
                  FlagByCascade(r.internals.london_active
                                    /\ r.internals.new_york_active,
                                active /\ r.internals.session_age_minutes <= 30,
                                active /\ r.internals.minutes_to_close <= 30)

\* A session that crosses midnight has been flagged on the thirtieth minute
\* of its opening half hour.
C22_Witness ==
    /\ sessionCall.done
    /\ sessionCall.sessions # DefaultSessions
    /\ sessionCall.report.output.active_session = "ASIA"
    /\ sessionCall.report.internals.session_age_minutes = 30
    /\ sessionCall.report.output.boundary_flag = "SESSION_OPEN_30MIN"

-----------------------------------------------------------------------------
(* One RiskCalculator across cycles: update_state and calculate in any      *)
(* order.                                                                   *)

\* The equities, the daily profits and losses and the counts of open
\* positions an account takes: the default equity, one a few cents above
\* it, and none; losses around the daily limit of 300 dollars.
AccountEquities == {None, RInt(10000), Rat(1000010, 100), RInt(0)}

AccountPnls == {None, RInt(0), RInt(-50), RInt(-300), RInt(-350)}

AccountPositions == {None, RInt(0), RInt(2)}

\* The stop distances handed to calculate between updates.
AccountStops == {None, RInt(50), Rat(125, 10)}

InitAccount ==
    /\ ReadersIdle
    /\ recencyCall = NoCall
    /\ baselineCall = NoCall
    /\ cycleRun = NoCall
    /\ volatilityCall = NoCall
    /\ momentumCall = NoCall
    /\ clusterCall = NoCall
    /\ sessionCall = NoCall
    /\ \E equity \in {None, RInt(10000)} :
          riskCall = [done |-> FALSE,
                      calc |-> risk_init(equity, RInt(0), 0),
                      update |-> None]

\* risk_agent.update_state(equity, daily_pnl, open_positions); the report of
\* an earlier calculate is dropped from the record.
UpdateState ==
    /\ "update" \in DOMAIN riskCall
    /\ \E equity \in AccountEquities, daily_pnl \in AccountPnls,
          open_positions \in AccountPositions :
          riskCall' =
              [done |-> FALSE,
               calc |-> update_state(riskCall.calc, equity, daily_pnl,
                                     open_positions),
               update |-> [equity |-> equity, daily_pnl |-> daily_pnl,
                           open_positions |-> open_positions]]
    /\ UNCHANGED <<cycleVars, clusterCall, sessionCall, momentumCall, volatilityCall, cycleRun, baselineCall, recencyCall>>

\* risk_agent.calculate(stop_distance_pips) on the account as it stands
AccountCalculate ==
    /\ "update" \in DOMAIN riskCall
    /\ \E stop_distance_pips \in AccountStops,
          ties_up \in {{}, RoundedRiskFields} :
          riskCall' =
              [done |-> TRUE, calc |-> riskCall.calc,
               update |-> riskCall.update,
               stop_distance_pips |-> stop_distance_pips,
               report |-> risk_calculate(riskCall.calc, stop_distance_pips,
                                         ties_up)]
    /\ UNCHANGED <<cycleVars, clusterCall, sessionCall, momentumCall, volatilityCall, cycleRun, baselineCall, recencyCall>>

NextAccount == UpdateState \/ AccountCalculate

SpecAccount == InitAccount /\ [][NextAccount]_vars

\* equity x maxDailyLossFraction + dailyPnL of the account as it stands
DailyLimitRemaining ==
    RAdd(RMul(riskCall.calc.equity, MAX_DAILY_LOSS), riskCall.calc.daily_pnl)

\* Equity 10000 with a limit of 3%: a daily loss of 350 is breached, one of
\* 50 is not.
DailyLimitScenario ==
    riskCall.calc.equity = RInt(10000) =>
        /\ riskCall.calc.daily_pnl = RInt(-350) =>
              riskCall.report.output.daily_limit_breached
        /\ riskCall.calc.daily_pnl = RInt(-50) =>
              ~ riskCall.report.output.daily_limit_breached

\* C23: after any sequence of update_state calls a report of calculate shows
\* daily_limit_remaining = equity x maxDailyLossFraction + dailyPnL of the
\* latest account values, to the cent, and daily_limit_breached iff the
\* reported remaining amount is <= 0.
C23_DailyLimit ==
    riskCall.done /\ ~ riskCall.report.raised =>
        /\ IsRounded2(riskCall.report.output.daily_limit_remaining,
                      DailyLimitRemaining)
        /\ riskCall.report.output.daily_limit_breached <=>
              RLe(riskCall.report.output.daily_limit_remaining, RInt(0))
        /\ DailyLimitScenario

\* What does hold: unless the equity is zero calculate reports the remaining
\* amount of the latest account values rounded to the cent, and
\* daily_limit_breached iff the amount before rounding is <= 0.
DailyLimitBeforeRounding ==
    riskCall.done =>
        /\ riskCall.report.raised <=> riskCall.calc.equity = RInt(0)
        /\ ~ riskCall.report.raised =>
              /\ IsRounded2(riskCall.report.output.daily_limit_remaining,
                            DailyLimitRemaining)
              /\ riskCall.report.output.daily_limit_breached <=>
                    RLe(DailyLimitRemaining, RInt(0))
              /\ DailyLimitScenario

\* The fields of the account state.
AccountFields == {"equity", "daily_pnl", "open_positions"}

\* The value a field takes from an argument of update_state.
FieldValue(field, argument) ==
    IF field = "open_positions" THEN argument.n ELSE argument

\* A step that returns a report is a calculate and leaves the three fields
\* as they were; any other step is an update_state and changes the fields
\* passed as non-None, to the values passed, and no other.
AccountFrame ==
    IF riskCall'.done
    THEN riskCall'.calc = riskCall.calc
    ELSE \A field \in AccountFields :
            riskCall'.calc[field] =
                IF riskCall'.update[field] # None
                THEN FieldValue(field, riskCall'.update[field])
                ELSE riskCall.calc[field]

\* A report shows the account values as they stand.
ReportShowsAccount ==
    riskCall.done /\ ~ riskCall.report.raised =>
        /\ riskCall.report.output.equity = riskCall.calc.equity
        /\ riskCall.report.output.daily_pnl = riskCall.calc.daily_pnl
        /\ riskCall.report.output.open_positions = riskCall.calc.open_positions
        /\ riskCall.report.output.can_open_new_position <=>
              riskCall.calc.open_positions < MAX_CONCURRENT_POSITIONS

\* C26: the account state changes only through update_state: calculate
\* leaves equity, daily P&L and open-position count unchanged for any stop,
\* update_state changes exactly the fields passed as non-None, and after any
\* interleaving of the two each report shows the values of the most recent
\* update.
C26_AccountFrame == [][AccountFrame]_vars /\ []ReportShowsAccount

\* A report shows a daily loss set by an earlier update and left alone, by
\* None, in the most recent update, which set the equity.
C26_Witness ==
    /\ riskCall.done
    /\ ~ riskCall.report.raised
    /\ riskCall.update # None
    /\ riskCall.update.daily_pnl = None
    /\ riskCall.update.equity = Rat(1000010, 100)
    /\ riskCall.report.output.daily_pnl = RInt(-350)
    /\ riskCall.report.output.equity = Rat(1000010, 100)

-----------------------------------------------------------------------------
(* calculate_velocity_trend and find_last_impulse over tick windows. The    *)
(* mids of a window are whole multiples, from 0 to 6, of an eighth or a     *)
(* quarter of a pip, so that every difference of two mids and its size in   *)
(* pips are floats.                                                         *)

\* The price steps of a window: an eighth and a quarter of a pip.
TickUnits == {RDiv(PIP_SIZE, RInt(8)), RDiv(PIP_SIZE, RInt(4))}

\* The highest mid of a window, in steps.
MaxTickLevel == 6

\* The most moves of a short window.
MaxMoves == 6

\* The moves from one tick to the next, in steps.
TickSteps == {-1, 0, 1}

RECURSIVE Walks(_, _, _)
\* The level sequences of n moves from the level start, each move in steps.
Walks(start, n, steps) ==
    IF n = 0 THEN {<<start>>}
    ELSE {Append(w, w[Len(w)] + step) :
             w \in Walks(start, n - 1, steps), step \in steps}

\* The walks that stay between 0 and MaxTickLevel.
InRange(walks) ==
    {w \in walks : \A i \in 1..Len(w) : w[i] >= 0 /\ w[i] <= MaxTickLevel}

\* The ticks at the levels of a walk, unit apart.
TicksAt(unit, walk) ==
    [i \in 1..Len(walk) |-> [mid |-> RMul(unit, RInt(walk[i]))]]

\* Short windows: up to MaxMoves moves from the bottom, the middle or the
\* top level.
ShortWalks ==
    UNION {InRange(Walks(start, n, TickSteps)) :
              start \in {0, 3, MaxTickLevel}, n \in 0..MaxMoves}

\* Long windows of 10 and 11 ticks: a first half of 5 ticks and a second
\* half of 5 or 6 ticks that rises or falls at every tick.
LongWalks ==
    {first \o second :
        first \in InRange(Walks(3, 4, TickSteps)),
        second \in InRange(Walks(3, 4, {-1, 1}))
                      \cup InRange(Walks(3, 5, {-1, 1}))}

TickWindows ==
    {TicksAt(unit, walk) : unit \in TickUnits, walk \in ShortWalks}
        \cup {TicksAt(RDiv(PIP_SIZE, RInt(4)), walk) : walk \in LongWalks}

InitRecency ==
    /\ ReadersIdle
    /\ baselineCall = NoCall
    /\ cycleRun = NoCall
    /\ volatilityCall = NoCall
    /\ momentumCall = NoCall
    /\ riskCall = NoCall
    /\ clusterCall = NoCall
    /\ sessionCall = NoCall
    /\ \E ticks \in TickWindows :
          recencyCall = [done |-> FALSE, ticks |-> ticks,
                         velocity_trend |-> "", last_impulse |-> None]

\* calculate_velocity_trend(ticks, self.pip_size)
CalculateVelocityTrend ==
    /\ "ticks" \in DOMAIN recencyCall
    /\ recencyCall.velocity_trend = ""
    /\ recencyCall' =
          [recencyCall EXCEPT
              !.done = TRUE,
              !.velocity_trend =
                  calculate_velocity_trend(recencyCall.ticks, PIP_SIZE)]
    /\ UNCHANGED <<cycleVars, clusterCall, sessionCall, riskCall, momentumCall, volatilityCall, cycleRun, baselineCall>>

\* find_last_impulse(ticks, self.pip_size)
FindLastImpulse ==
    /\ "ticks" \in DOMAIN recencyCall
    /\ recencyCall.last_impulse = None
    /\ \E tie_up \in BOOLEAN :
          recencyCall' =
              [recencyCall EXCEPT
                  !.done = TRUE,
                  !.last_impulse =
                      find_last_impulse(recencyCall.ticks, PIP_SIZE, 3,
                                        tie_up)]
    /\ UNCHANGED <<cycleVars, clusterCall, sessionCall, riskCall, momentumCall, volatilityCall, cycleRun, baselineCall>>

NextRecency == CalculateVelocityTrend \/ FindLastImpulse

SpecRecency == InitRecency /\ [][NextRecency]_vars

\* The direction of the move that ends at tick i: 1 up, -1 down, 0 unchanged.
MoveDirection(ticks, i) ==
    IF RLt(ticks[i - 1].mid, ticks[i].mid) THEN 1
    ELSE IF RLt(ticks[i].mid, ticks[i - 1].mid) THEN -1
    ELSE 0

RECURSIVE TotalMovement(_, _, _)
\* The sum of |price change| over the consecutive ticks lo..hi.
TotalMovement(ticks, lo, hi) ==
    IF hi <= lo THEN RInt(0)
    ELSE FAdd(TotalMovement(ticks, lo, hi - 1),
              RAbs(FSub(ticks[hi].mid, ticks[hi - 1].mid)))

\* The trend of a second movement against a first: INCREASING above a ratio
\* of 1.3, DECAYING below 0.7, a first movement of zero counting as one the
\* second exceeds without bound when it is above zero.
TrendOfMovements(first, second) ==
    IF first = RInt(0)
    THEN IF RLt(RInt(0), second) THEN "INCREASING" ELSE "STEADY"
    ELSE IF RLt(fl(Rat(13, 10)), FDiv(second, first)) THEN "INCREASING"
    ELSE IF RLt(FDiv(second, first), fl(Rat(7, 10))) THEN "DECAYING"
    ELSE "STEADY"

\* C24: on a window of at least 10 ticks the velocity trend compares the
\* total absolute price movement of the second half of the window with that
\* of the first half: ratio > 1.3 INCREASING, ratio < 0.7 DECAYING, else
\* STEADY.
C24_TrendOfTotalMovement ==
    recencyCall.done /\ recencyCall.velocity_trend # "" =>
        LET ticks == recencyCall.ticks
            half == Len(ticks) \div 2
        IN  Len(ticks) >= 10 =>
                recencyCall.velocity_trend =
                    TrendOfMovements(TotalMovement(ticks, 1, half),
                                     TotalMovement(ticks, half + 1,
                                                   Len(ticks)))

\* What the code does: the trend compares the distance between the first and
\* the last tick of each half, and is STEADY below 10 ticks. Where neither
\* half turns, the distance is the total movement and the trend is the
\* claimed one.
TrendOfNetMovement ==
    recencyCall.done /\ recencyCall.velocity_trend # "" =>
        LET ticks == recencyCall.ticks
            half == Len(ticks) \div 2
            turns == \E i, j \in (2..half) \cup ((half + 2)..Len(ticks)) :
                        /\ (i <= half) = (j <= half)
                        /\ MoveDirection(ticks, i) * MoveDirection(ticks, j) < 0
        IN  /\ Len(ticks) < 10 => recencyCall.velocity_trend = "STEADY"
            /\ Len(ticks) >= 10 =>
                  recencyCall.velocity_trend =
                      TrendOfMovements(
                          RAbs(FSub(ticks[half].mid, ticks[1].mid)),
                          RAbs(FSub(ticks[Len(ticks)].mid,
                                    ticks[half + 1].mid)))
            /\ Len(ticks) >= 10 /\ ~ turns =>
                  recencyCall.velocity_trend =
                      TrendOfMovements(TotalMovement(ticks, 1, half),
                                       TotalMovement(ticks, half + 1,
                                                     Len(ticks)))

\* The ticks at which the price moves, after the first tick: a tick that
\* repeats the price before it is no move.
MovingTicks(ticks) ==
    SelectSeq([i \in 1..Len(ticks) |->
                  [mid |-> ticks[i].mid,
                   moved |-> i = 1 \/ ticks[i].mid # ticks[i - 1].mid]],
              LAMBDA t : t.moved)

\* The number of moves of the longest run of consecutive same-direction
\* moves that ends at the last tick.
TrailingRun(ticks) ==
    LET n == Len(ticks)
        runs == {k \in 0..(n - 1) :
                    \A i \in (n - k + 1)..n :
                        /\ MoveDirection(ticks, i) # 0
                        /\ MoveDirection(ticks, i) = MoveDirection(ticks, n)}
    IN  CHOOSE k \in runs : \A other \in runs : other <= k

\* The impulse is the trailing run of k >= 3 moves: its direction, its size
\* the price change between the first and the last tick of the run, in pips
\* to 2 decimals, its strength WEAK up to 0.5, MODERATE up to 1.0 and STRONG
\* above.
ImpulseIsTrailingRun(ticks, k, impulse) ==
    LET n == Len(ticks)
    IN  /\ impulse.direction =
              IF MoveDirection(ticks, n) = 1 THEN "UP" ELSE "DOWN"
        /\ impulse.size_pips \in
              {round(FDiv(RAbs(FSub(ticks[n].mid, ticks[n - k].mid)),
                          PIP_SIZE), 2, tie_up) : tie_up \in BOOLEAN}
        /\ impulse.strength =
              IF RLe(impulse.size_pips, Rat(1, 2)) THEN "WEAK"
              ELSE IF RLe(impulse.size_pips, RInt(1)) THEN "MODERATE"
              ELSE "STRONG"

\* C25: find_last_impulse reports the longest trailing run of consecutive
\* same-direction tick moves when it has at least 3 moves, direction NONE
\* otherwise; the size is the price change between the first and the last
\* tick of the run, the strength WEAK up to 0.5 pips, MODERATE up to 1.0,
\* STRONG above.
C25_ImpulseIsTrailingRun ==
    recencyCall.done /\ recencyCall.last_impulse # None =>
        LET ticks == MovingTicks(recencyCall.ticks)
            k == TrailingRun(ticks)
        IN  IF k >= 3
            THEN ImpulseIsTrailingRun(ticks, k, recencyCall.last_impulse)
            ELSE recencyCall.last_impulse.direction = "NONE"

\* What the code does: the trailing run is reported when it has at least 3
\* moves, and otherwise the direction is NONE only if no 3 consecutive moves
\* of the window share a direction, an earlier run of 3 being reported with
\* the ticks since its end.
ImpulseIsLatestRun ==
    recencyCall.done /\ recencyCall.last_impulse # None =>
        LET ticks == MovingTicks(recencyCall.ticks)
            n == Len(ticks)
            k == TrailingRun(ticks)
            run_of_three ==
                \E i \in 4..n :
                    /\ MoveDirection(ticks, i) = MoveDirection(ticks, i - 1)
                    /\ MoveDirection(ticks, i) = MoveDirection(ticks, i - 2)
        IN  /\ k >= 3 =>
                  /\ ImpulseIsTrailingRun(ticks, k, recencyCall.last_impulse)
                  /\ recencyCall.last_impulse.ticks_ago = 0
            /\ recencyCall.last_impulse.direction = "NONE" <=> ~ run_of_three
            /\ k < 3 /\ run_of_three =>
                  recencyCall.last_impulse.ticks_ago > 0

-----------------------------------------------------------------------------
(* The vetoes of the bias against the reasons of the forbidden gate.        *)

\* C27: whenever the bias an orchestrator reports for a cycle is
\* DO_NOT_TRADE, the forbidden flag it reports for the same cycle is true
\* with at least one reason.
C27_VetoIsReported ==
    /\ dash.done /\ dash.bias = "DO_NOT_TRADE" =>
          dash.synthesis_forbidden /\ DashReasons # {}
    /\ CliReturned /\ cli.bias = "DO_NOT_TRADE" =>
          cli.forbidden /\ cli.reason # "None"

\* What does hold: every veto of dashboard.py's bias is reported by its
\* gate, and run_all_agents.py's bias vetoes without a reason of its gate
\* exactly on RANGE with an accelerating momentum.
VetoReportedButInRange ==
    /\ dash.done /\ dash.bias = "DO_NOT_TRADE" =>
          dash.synthesis_forbidden /\ DashReasons # {}
    /\ CliReturned /\ cli.bias = "DO_NOT_TRADE" =>
          \/ cli.forbidden /\ cli.reason # "None"
          \/ /\ CliSeen.regime = "RANGE"
             /\ CliSeen.momentum \in {"ACCELERATING_LONG", "ACCELERATING_SHORT"}
    /\ CliReturned /\ CliSeen.regime = "RANGE" /\ FiringConditions(CliSeen) = {}
       /\ CliSeen.momentum \in {"ACCELERATING_LONG", "ACCELERATING_SHORT"} =>
          cli.bias = "DO_NOT_TRADE" /\ ~ cli.forbidden

-----------------------------------------------------------------------------
(* The dollars at risk of the rounded lot sizes.                            *)

\* Every row of the report's table, the caller's stop distance included.
AllRiskRows ==
    LET table == riskCall.report.output.position_size_table
    IN  {table[i] : i \in 1..Len(table)}

\* C28: for every row of the position size table, the 20/30/50/100/150/200
\* ladder and a stop distance of the caller, the risk_dollars of the rounded
\* lot size does not exceed risk_per_trade_dollars, equity x risk fraction
\* (read on the accounts with an equity above zero, against the reported
\* amount and against the unrounded product).
C28_RiskWithinLimit ==
    riskCall.done /\ RLt(RInt(0), riskCall.calc.equity) =>
        \A row \in AllRiskRows :
            \/ RLe(row.risk_dollars,
                   riskCall.report.output.risk_per_trade_dollars)
            \/ RLe(row.risk_dollars,
                   RMul(riskCall.calc.equity, RISK_PER_TRADE))

\* The default account: the rows of 20, 50, 100 and 200 pips risk 100.00
\* dollars, the row of 30 pips 99.90 and the row of 150 pips 100.50.
DefaultLadder ==
    riskCall.calc.equity = ACCOUNT_EQUITY =>
        \A row \in AllRiskRows :
            /\ row.stop_pips \in {RInt(20), RInt(50), RInt(100), RInt(200)} =>
                  row.risk_dollars = RInt(100)
            /\ row.stop_pips = RInt(30) =>
                  row.lot_size = Rat(333, 100) /\ row.risk_dollars = Rat(999, 10)
            /\ row.stop_pips = RInt(150) =>
                  row.lot_size = Rat(67, 100) /\ row.risk_dollars = Rat(1005, 10)

\* What does hold: the lot size is rounded to the nearest hundredth, up as
\* well as down, so the dollars at risk of a row with a stop distance above
\* zero lie within half a hundredth of a lot, stop x pip value x 0.005
\* dollars, and half a cent of equity x risk fraction, on either side.
RiskWithinHalfStep ==
    riskCall.done /\ ~ riskCall.report.raised =>
        /\ \A row \in RiskRows :
              RLe(RAbs(RSub(row.risk_dollars,
                            RMul(riskCall.calc.equity, RISK_PER_TRADE))),
                  RAdd(RMul(RMul(row.stop_pips, pip_value_per_lot), Rat(1, 200)),
                       Rat(1, 200)))
        /\ DefaultLadder

-----------------------------------------------------------------------------
(* StructureMapper over histories with repeated swing prices: the strength  *)
(* of a level against the swing points its cluster merged.                  *)

\* The most swing bars a history of the strength specification holds.
MaxSwingBars == 4

\* The highs and lows, in cents, of its swing bars around flat bars at 50
\* cents; a low of 50 is no swing.
StrengthHighs == {58, 68}

StrengthLows == {41, 50}

StrengthCandles ==
    {Candle(50, h, l, 50) : h \in StrengthHighs, l \in StrengthLows} \
        {Candle(50, 58, 41, 50)}

\* The closes, in cents, of the most recent bar.
StrengthCloses == {50, 62}

RECURSIVE SwingBarHistories(_)
\* Five flat bars, then k swing bars with three flat bars between
\* neighbours, so that every swing bar is a swing high of find_swing_highs.
SwingBarHistories(k) ==
    IF k = 0 THEN {Fillers(5)}
    ELSE {h \o (IF k = 1 THEN <<>> ELSE Fillers(3)) \o <<spike>> :
              h \in SwingBarHistories(k - 1), spike \in StrengthCandles}

StrengthHistories ==
    UNION {{h \o Fillers(3) \o <<LastCandle(c)>> :
                h \in SwingBarHistories(k), c \in StrengthCloses} :
           k \in 0..MaxSwingBars}

InitStrength ==
    /\ reports = NoReports
    /\ dash = NoDash
    /\ cli = NoCli
    /\ candles \in StrengthHistories
    /\ regimeReport = NoRegimeReport
    /\ adxOut = NoAdx
    /\ prices = <<>>
    /\ velocityOut = NoVelocity
    /\ structureReport = NoStructureReport
    /\ NoCalls

NextStrength == MapStructure

SpecStrength == InitStrength /\ [][NextStrength]_vars

\* The prices of the swing highs and lows of the history, highs first.
SwingPrices ==
    LET swing_highs == find_swing_highs(candles, 3, 3)
        swing_lows == find_swing_lows(candles, 3, 3)
    IN  [i \in 1..Len(swing_highs) |-> swing_highs[i].price] \o
        [i \in 1..Len(swing_lows) |-> swing_lows[i].price]

RECURSIVE MergedBy(_, _, _, _, _)
\* The clusters the loop of cluster_levels forms from index i on, each as
\* the list of the prices it merged.
MergedBy(sorted_levels, min_distance, i, clusters, current_cluster) ==
    IF i > Len(sorted_levels) THEN Append(clusters, current_cluster)
    ELSE IF RLe(FSub(sorted_levels[i], current_cluster[Len(current_cluster)]),
                min_distance)
    THEN MergedBy(sorted_levels, min_distance, i + 1, clusters,
                  Append(current_cluster, sorted_levels[i]))
    ELSE MergedBy(sorted_levels, min_distance, i + 1,
                  Append(clusters, current_cluster), <<sorted_levels[i]>>)

\* The clusters of the history's swing prices, in the order of
\* cluster_levels' result.
SwingClusters ==
    IF SwingPrices = <<>> THEN <<>>
    ELSE LET sorted_levels == SortSeq(SwingPrices, RLt)
         IN  MergedBy(sorted_levels,
                      FMul(RInt(STRUCTURE_MIN_DISTANCE_PIPS), PIP_SIZE),
                      2, <<>>, <<sorted_levels[1]>>)

\* The levels of cluster_levels are the averages of these clusters.
ClustersAverage ==
    clustered_levels_of(candles) =
        [k \in 1..Len(SwingClusters) |-> cluster_average(SwingClusters[k])]

\* The clusters whose level the report shows: those above and below the
\* current price, the nearest three on either side.
ReportedClusters ==
    LET levels == clustered_levels_of(candles)
        current_price == Dollars(candles[Len(candles)].close)
        nearest(side) ==
            {k \in side : Cardinality({j \in side :
                RLt(RAbs(RSub(levels[j], current_price)),
                    RAbs(RSub(levels[k], current_price)))}) < 3}
    IN  nearest({k \in 1..Len(levels) : RLt(current_price, levels[k])}) \cup
        nearest({k \in 1..Len(levels) : RLt(levels[k], current_price)})

\* The strength the report shows for the level of cluster k.
ReportedStrength(k) ==
    LET level == clustered_levels_of(candles)[k]
        shown == structureReport.output.levels_above \o
                 structureReport.output.levels_below
        current_price == Dollars(candles[Len(candles)].close)
        distance == IF RLt(current_price, level)
                    THEN FSub(level, current_price)
                    ELSE FSub(current_price, level)
    IN  {shown[i].strength : i \in {j \in 1..Len(shown) :
            /\ RLe(RAbs(RSub(shown[j].price, level)), Rat(1, 200))
            /\ RLe(RAbs(RSub(shown[j].distance_pips,
                             FDiv(distance, PIP_SIZE))), Rat(1, 20))
            /\ (j <= Len(structureReport.output.levels_above)) =
                   RLt(current_price, level)}}

\* The swing points, by their position in SwingPrices, within the touch
\* threshold of the level of cluster k.
Touches(k) ==
    LET level == clustered_levels_of(candles)[k]
    IN  {i \in 1..Len(SwingPrices) :
            RLe(RAbs(FSub(SwingPrices[i], level)),
                FMul(RInt(STRUCTURE_MIN_DISTANCE_PIPS), PIP_SIZE))}

\* The swing points cluster k merged.
MembersOf(k) ==
    {i \in 1..Len(SwingPrices) :
        \E j \in 1..Len(SwingClusters[k]) : SwingClusters[k][j] = SwingPrices[i]}

\* C29: with the touch threshold equal to the clustering distance, a
\* reported level has strength MAJOR iff its cluster merged at least two
\* swing points, highs and lows counted with multiplicity, and MINOR iff the
\* cluster is a single swing point; no swing point of another cluster ever
\* counts as a touch.
C29_StrengthIsClusterSize ==
    structureReport.done /\ structureReport.status = "ANALYSIS_COMPLETE" =>
        \A k \in ReportedClusters :
            /\ ReportedStrength(k) =
                  {IF Len(SwingClusters[k]) >= 2 THEN "MAJOR" ELSE "MINOR"}
            /\ Touches(k) \subseteq MembersOf(k)

\* What does hold: the strength of a reported level is MAJOR iff its cluster
\* merged at least two swing points and MINOR iff it is a single one, and a
\* swing point of another cluster counts as a touch only of a level whose
\* cluster merged at least three points, whose average the float sum has
\* moved off the points.
StrengthByClusterSize ==
    structureReport.done /\ structureReport.status = "ANALYSIS_COMPLETE" =>
        /\ ClustersAverage
        /\ \A k \in ReportedClusters :
              /\ ReportedStrength(k) =
                    {IF Len(SwingClusters[k]) >= 2 THEN "MAJOR" ELSE "MINOR"}
              /\ Touches(k) \subseteq MembersOf(k) \/ Len(SwingClusters[k]) >= 3

-----------------------------------------------------------------------------
(* The boundary flags of a day with the default windows.                    *)

\* The minutes of the day from hour:minute to to_hour:to_minute, both
\* included.
MinutesFrom(hour, minute, to_hour, to_minute) ==
    (hour * 60 + minute)..(to_hour * 60 + to_minute)

\* C30: with the default session windows, over all 1440 minutes of the day,
\* boundary_flag = SESSION_CLOSE_30MIN exactly for the times 21:30-21:59, in
\* NEW_YORK, so the close of ASIA and LONDON is never flagged;
\* SESSION_OPEN_30MIN is reported exactly for 00:00-00:30 and 07:00-07:30;
\* and during OFF_HOURS the flag is NONE with age and time to close 0.
C30_DefaultDayFlags ==
    sessionCall.done /\ sessionCall.sessions = DefaultSessions =>
        LET t == sessionCall.hour * 60 + sessionCall.minute
            output == sessionCall.report.output
            internals == sessionCall.report.internals
        IN  /\ output.boundary_flag = "SESSION_CLOSE_30MIN" <=>
                  t \in MinutesFrom(21, 30, 21, 59)
            /\ output.boundary_flag = "SESSION_CLOSE_30MIN" =>
                  output.active_session = "NEW_YORK"
            /\ output.active_session \in {"ASIA", "LONDON"} =>
                  output.boundary_flag # "SESSION_CLOSE_30MIN"
            /\ output.boundary_flag = "SESSION_OPEN_30MIN" <=>
                  t \in MinutesFrom(0, 0, 0, 30) \cup MinutesFrom(7, 0, 7, 30)
            /\ output.active_session = "OFF_HOURS" =>
                  /\ output.boundary_flag = "NONE"
                  /\ internals.session_age_minutes = 0
                  /\ internals.minutes_to_close = 0
                  /\ output.session_age = "0m"
                  /\ output.time_to_close = "0m"

\* The clock with the default windows has flagged the close at 21:30, the
\* thirtieth minute before New York closes.
C30_Witness ==
    /\ sessionCall.done
    /\ sessionCall.sessions = DefaultSessions
    /\ sessionCall.hour = 21
    /\ sessionCall.minute = 30
    /\ sessionCall.report.output.active_session = "NEW_YORK"
    /\ sessionCall.report.output.boundary_flag = "SESSION_CLOSE_30MIN"

=============================================================================
